---- MODULE Spec2Model ----
(***************************************************************************)
(* A model of the tada DataFrame engine (github.com/t7a/tada).             *)
(*                                                                         *)
(* Part I models the object graph of the table model the way Go builds it: *)
(* a DataFrame holds two lists of *valueContainer pointers, a container    *)
(* holds two slices (values and null mask), and a slice is a window        *)
(* (array, offset, length) onto a backing array.  Aliasing is therefore    *)
(* explicit: two DataFrames may hold the same container, two containers    *)
(* may look at the same backing array.                                     *)
(*                                                                         *)
(* Part II models the grouping engine and its reducers as functions over   *)
(* (values, null mask, row positions).                                     *)
(*                                                                         *)
(* Parts III to VII model the sorter, the lookup aligner, the name         *)
(* deduplication, the null filters and the reshape engine over columns     *)
(* [name, slice, isNull] of string cells.  Part VIII completes the table   *)
(* machine, and the later parts model the label constructor, the rank and  *)
(* percentile functions, LookupAdvanced and the transposition.             *)
(***************************************************************************)
EXTENDS Integers, Sequences, FiniteSets, TLC

(***************************************************************************)
(* Bounds of the model.                                                    *)
(***************************************************************************)
\* number of operations in one run of the table machine
MaxOps == 3
\* longest slice handed to a constructor or to WithCol/WithLabels
MaxRows == 2
\* number of DataFrame objects a run may allocate
MaxDFs == 3

VARIABLES
    dfs,        \* DataFrame objects, by handle 1..Len(dfs)
    vcs,        \* valueContainer objects, by pointer 1..Len(vcs)
    strs,       \* backing arrays of the value slices
    bools,      \* backing arrays of the null masks
    panicked,   \* the last call ended in a Go run-time panic
    lastOp,     \* the call that produced this state
    copies,     \* pairs <<original, copy>> made by DataFrame.Copy
    steps,      \* number of calls made so far
    gin,        \* engine machines: the input (for grouping: vals, nulls, keys)
    grp,        \* engine machines: the intermediate result (the grouping)
    gout        \* engine machines: the last result (the last reduction)

tvars == <<dfs, vcs, strs, bools, panicked, lastOp, copies, steps>>
gvars == <<gin, grp, gout>>
vars == <<dfs, vcs, strs, bools, panicked, lastOp, copies, steps, gin, grp, gout>>

(***************************************************************************)
(* Small helpers.                                                          *)
(***************************************************************************)
Nil == "nil"

Elems(s) == {s[i] : i \in DOMAIN s}

RECURSIVE SeqsUpTo(_, _)
\* all sequences over S of length 0..n
SeqsUpTo(S, n) ==
    IF n = 0 THEN {<<>>}
    ELSE LET shorter == SeqsUpTo(S, n - 1)
         IN shorter \cup {Append(s, x) : s \in {t \in shorter : Len(t) = n - 1}, x \in S}

\* strings.ToLower over the names the model uses
ToLower(s) == IF s = "X" THEN "x" ELSE s

\* fmt.Sprint(i) for the ordinals the model uses
Sprint(i) == ToString(i)

(***************************************************************************)
(* The heap.  h is a record of the four object stores plus the panic flag, *)
(* threaded through the operators that model Go functions.                 *)
(***************************************************************************)
Cur == [dfs |-> dfs, vcs |-> vcs, strs |-> strs, bools |-> bools, panic |-> FALSE]

Commit(h) ==
    /\ dfs' = h.dfs
    /\ vcs' = h.vcs
    /\ strs' = h.strs
    /\ bools' = h.bools

Panic(h) == [h EXCEPT !.panic = TRUE]

\* a slice header: window of `len` cells starting `off` cells into array `arr`
MkSlice(a, o, l) == [arr |-> a, off |-> o, len |-> l]

\* the cells a value slice shows
ReadStr(h, sl) == [i \in 1..sl.len |-> h.strs[sl.arr][sl.off + i]]
\* the cells a null mask shows
ReadBool(h, sl) == [i \in 1..sl.len |-> h.bools[sl.arr][sl.off + i]]
\* cap(s)
CapStr(h, sl) == Len(h.strs[sl.arr]) - sl.off
CapBool(h, sl) == Len(h.bools[sl.arr]) - sl.off

\* types.go: valueContainer{slice, isNull, name}; `kind` is the dynamic type of slice
MkVC(kind, sl, nl, name) == [kind |-> kind, slice |-> sl, isNull |-> nl, name |-> name]

\* a container over freshly allocated arrays holding `vals` and `nulls`
NewVC(h, kind, vals, nulls, name) ==
    LET sa == Len(h.strs) + 1
        ba == Len(h.bools) + 1
    IN [h  |-> [h EXCEPT !.strs = Append(@, vals),
                         !.bools = Append(@, nulls),
                         !.vcs = Append(@, MkVC(kind, MkSlice(sa, 0, Len(vals)),
                                                MkSlice(ba, 0, Len(nulls)), name))],
        id |-> Len(h.vcs) + 1]

\* types.go: DataFrame{labels, values, name, err, colLevelNames}
MkDF(labels, values, name, err, colLevelNames) ==
    [labels |-> labels, values |-> values, name |-> name, err |-> err,
     colLevelNames |-> colLevelNames]

NewDF(h, df) == [h |-> [h EXCEPT !.dfs = Append(@, df)], id |-> Len(h.dfs) + 1]

dataFrameWithError(err) == MkDF(<<>>, <<>>, "", err, <<>>)

resetWithError(h, d, err) == [h EXCEPT !.dfs[d] = dataFrameWithError(err)]

(***************************************************************************)
(* Null detection.                                                         *)
(***************************************************************************)
\* strings.TrimSpace over the strings the model uses
TrimSpace(s) ==
    CASE s = " " -> ""
      [] s = " NaN " -> "NaN"
      [] s = " a " -> "a"
      [] OTHER -> s

isNullString(s) == TrimSpace(s) \in {"NaN", "n/a", "N/A", "", "nil"}

\* the []string and []int cases; an []int slice has no nulls
setNullsFromInterface(kind, vals) ==
    [i \in 1..Len(vals) |-> IF kind = "string" THEN isNullString(vals[i]) ELSE FALSE]

(***************************************************************************)
(* Inputs.  A constructor argument is a []string slice (possibly empty),   *)
(* or a value that is no slice, or a slice of an unsupported element type. *)
(***************************************************************************)
BaseA(i) == IF i % 3 = 1 THEN "a" ELSE IF i % 3 = 2 THEN "" ELSE "b"

\* the []string slices of length n the model hands out
StringSlice(n) == [i \in 1..n |-> BaseA(i)]

NotASlice == [kind |-> "scalar"]
UnsupportedSlice == [kind |-> "unsupported", len |-> 1]
StrInput(s) == [kind |-> "string", vals |-> s]

InputLen(x) == IF x.kind = "string" THEN Len(x.vals) ELSE x.len

\* returns [h, id, err]
makeValueContainerFromInterface(h, x, name) ==
    IF x.kind = "scalar" THEN [h |-> h, id |-> 0, err |-> TRUE]
    ELSE IF InputLen(x) = 0 THEN [h |-> h, id |-> 0, err |-> TRUE]
    ELSE IF x.kind = "unsupported" THEN [h |-> h, id |-> 0, err |-> TRUE]
    ELSE LET r == NewVC(h, "string", x.vals, setNullsFromInterface("string", x.vals), name)
         IN [h |-> r.h, id |-> r.id, err |-> FALSE]

RECURSIVE makeValueContainersFromInterfaces(_, _, _, _, _)
\* returns [h, ids, err]; `i` is the position being converted, `acc` the result so far
makeValueContainersFromInterfaces(h, slices, prefixAsterisk, i, acc) ==
    IF i > Len(slices) THEN [h |-> h, ids |-> acc, err |-> FALSE]
    ELSE LET namePrefix == IF prefixAsterisk THEN "*" ELSE ""
             r == makeValueContainerFromInterface(h, slices[i], namePrefix \o Sprint(i - 1))
         IN IF r.err THEN [h |-> h, ids |-> <<>>, err |-> TRUE]
            ELSE makeValueContainersFromInterfaces(r.h, slices, prefixAsterisk, i + 1,
                                                   Append(acc, r.id))

\* a fresh []int container min..max-1
makeDefaultLabels(h, min, max, prefixAsterisk) ==
    LET n == max - min
    IN NewVC(h, "int", [i \in 1..n |-> Sprint(min + i - 1)], [i \in 1..n |-> FALSE],
             IF prefixAsterisk THEN "*0" ELSE "0")

\* the `slices` argument: nil, or a list of inputs
NilSlices == [isNil |-> TRUE, elems |-> <<>>]
SliceArg(s) == [isNil |-> FALSE, elems |-> s]

\* returns [h, id]; labels = <<>> for no labels
NewDataFrame(h, slices, labels) ==
    IF slices.isNil /\ labels = <<>>
    THEN NewDF(h, dataFrameWithError("NewDataFrame"))
    ELSE
    LET v == IF ~slices.isNil
             THEN makeValueContainersFromInterfaces(h, slices.elems, FALSE, 1, <<>>)
             ELSE [h |-> h, ids |-> <<>>, err |-> FALSE]
    IN IF v.err THEN NewDF(h, dataFrameWithError("NewDataFrame"))
       ELSE
       LET l == makeValueContainersFromInterfaces(v.h, labels, TRUE, 1, <<>>)
       IN IF l.err THEN NewDF(h, dataFrameWithError("NewDataFrame"))
          ELSE IF Len(l.ids) = 0 /\ Len(slices.elems) = 0
          THEN [h |-> Panic(h), id |-> 0]   \* slices[0] of an empty list
          ELSE
          LET dl == IF Len(l.ids) = 0
                    THEN makeDefaultLabels(l.h, 0, InputLen(slices.elems[1]), TRUE)
                    ELSE [h |-> l.h, id |-> 0]
              retLabels == IF Len(l.ids) = 0 THEN <<dl.id>> ELSE l.ids
              dv == IF slices.isNil
                    THEN makeDefaultLabels(dl.h, 0, InputLen(labels[1]), FALSE)
                    ELSE [h |-> dl.h, id |-> 0]
              values == IF slices.isNil THEN <<dv.id>> ELSE v.ids
          IN NewDF(dv.h, MkDF(retLabels, values, "", Nil, <<"*0">>))

(***************************************************************************)
(* Copy.                                                                   *)
(***************************************************************************)
\* valueContainer.copy: returns [h, id]
copySharingNullMask(h, c) ==
    LET vc == h.vcs[c]
        sa == Len(h.strs) + 1
    IN [h |-> [h EXCEPT !.strs = Append(@, ReadStr(h, vc.slice)),
                        !.vcs = Append(@, MkVC(vc.kind, MkSlice(sa, 0, vc.slice.len),
                                               vc.isNull, vc.name))],
        id |-> Len(h.vcs) + 1]

copy(h, c) ==
    LET vc == h.vcs[c]
        r == NewVC(h, vc.kind, ReadStr(h, vc.slice), ReadBool(h, vc.isNull), vc.name)
    IN r

RECURSIVE copyContainers(_, _, _, _)
\* returns [h, ids]
copyContainers(h, ids, i, acc) ==
    IF i > Len(ids) THEN [h |-> h, ids |-> acc]
    ELSE LET r == copy(h, ids[i])
         IN copyContainers(r.h, ids, i + 1, Append(acc, r.id))

\* DataFrame.Copy: returns [h, id]
Copy(h, d) ==
    LET df == h.dfs[d]
        v == copyContainers(h, df.values, 1, <<>>)
        l == copyContainers(v.h, df.labels, 1, <<>>)
    IN NewDF(l.h, MkDF(l.ids, v.ids, df.name, df.err, df.colLevelNames))

(***************************************************************************)
(* Row operations on one container.                                        *)
(***************************************************************************)
\* what subsetRows does with one index value: report an error, panic on the
\* unchecked read vc.isNull[indexValue], or read the row
subsetRowsAt(vc, indexValue) ==
    IF indexValue >= vc.slice.len THEN "err"
    ELSE IF indexValue < 0 \/ indexValue >= vc.isNull.len THEN "panic"
    ELSE "ok"

\* valueContainer.subsetRows: returns [h, err]; the first offending index value decides
subsetRows(h, c, index) ==
    LET vc == h.vcs[c]
        bad == {p \in DOMAIN index : subsetRowsAt(vc, index[p]) # "ok"}
        firstBad == CHOOSE p \in bad : \A q \in bad : p <= q
        vals == ReadStr(h, vc.slice)
        nulls == ReadBool(h, vc.isNull)
        sa == Len(h.strs) + 1
        ba == Len(h.bools) + 1
        n == Len(index)
    IN IF bad # {}
       THEN IF subsetRowsAt(vc, index[firstBad]) = "err"
            THEN [h |-> h, err |-> TRUE]
            ELSE [h |-> Panic(h), err |-> FALSE]
       ELSE [h |-> [h EXCEPT !.strs = Append(@, [i \in 1..n |-> vals[index[i] + 1]]),
                             !.bools = Append(@, [i \in 1..n |-> nulls[index[i] + 1]]),
                             !.vcs[c] = [@ EXCEPT !.slice = MkSlice(sa, 0, n),
                                                  !.isNull = MkSlice(ba, 0, n)]],
             err |-> FALSE]

\* the cells of a backing array after rows off+index+1 .. off+len-1 moved one to the left
ShiftLeft(arr, off, index, len) ==
    [p \in 1..Len(arr) |-> IF p >= off + index + 1 /\ p <= off + len - 1 THEN arr[p + 1] ELSE arr[p]]

\* valueContainer.dropRow: returns [h, err]; append(s[:index], s[index+1:]...) writes
\* into the backing array of s
dropRow(h, c, index) ==
    LET vc == h.vcs[c]
        l == vc.slice.len
    IN IF index >= l THEN [h |-> h, err |-> TRUE]
       ELSE IF index < 0 \/ index + 1 > vc.isNull.len
       THEN [h |-> Panic(h), err |-> FALSE]
       ELSE [h |-> [h EXCEPT
                      !.bools[vc.isNull.arr] = ShiftLeft(@, vc.isNull.off, index, vc.isNull.len),
                      !.strs[vc.slice.arr] = ShiftLeft(@, vc.slice.off, index, l),
                      !.vcs[c] = [@ EXCEPT !.slice = MkSlice(vc.slice.arr, vc.slice.off, l - 1),
                                           !.isNull = MkSlice(vc.isNull.arr, vc.isNull.off,
                                                              vc.isNull.len - 1)]],
             err |-> FALSE]

\* v.Slice(i, j) and vc.isNull[i:j] in a new container: returns [h, id]
\* (a Go slice expression may reach up to the capacity, and panics beyond it)
window(h, c, i, j) ==
    LET vc == h.vcs[c]
    IN IF i < 0 \/ i > j \/ j > CapStr(h, vc.slice) \/ j > CapBool(h, vc.isNull)
       THEN [h |-> Panic(h), id |-> 0]
       ELSE [h |-> [h EXCEPT !.vcs = Append(@, MkVC(vc.kind,
                                  MkSlice(vc.slice.arr, vc.slice.off + i, j - i),
                                  MkSlice(vc.isNull.arr, vc.isNull.off + i, j - i),
                                  vc.name))],
             id |-> Len(h.vcs) + 1]

\* valueContainer.head
head(h, c, n) == window(h, c, 0, n)

\* valueContainer.tail
tail(h, c, n) == window(h, c, h.vcs[c].isNull.len - n, h.vcs[c].isNull.len)

\* valueContainer.rangeSlice
rangeSliceFromTop(h, c, first, last) == window(h, c, 0, last - first)

rangeSlice(h, c, first, last) == window(h, c, first, last)

\* valueContainer.str on the kinds of the model: the string projection, in a new array
str(h, c) == ReadStr(h, h.vcs[c].slice)

\* the allocator's size classes (bytes) that the slices of the model can reach
SizeClasses == {8, 16, 24, 32, 48, 64, 80, 96, 112, 128, 144, 160, 176, 192, 208, 224, 240, 256}

\* roundupsize: the size class an allocation of `size` bytes comes from
roundupsize(size) == CHOOSE c \in SizeClasses : c >= size /\ \A o \in SizeClasses : o >= size => c <= o

\* growslice: the capacity of the array a reallocating append makes, for elements of
\* `elemSize` bytes: twice the old capacity unless more is needed, up to the size class
growslice(oldCap, newLen, elemSize) ==
    LET doublecap == oldCap + oldCap
        newcap == IF newLen > doublecap THEN newLen ELSE doublecap
    IN roundupsize(newcap * elemSize) \div elemSize

\* the cells of a new array of capacity `cap` that starts with `cells`; the rest is zeroed
Grown(cells, cap, zero) == [p \in 1..cap |-> IF p <= Len(cells) THEN cells[p] ELSE zero]

\* valueContainer.append: returns [h, id]; append(vc.isNull, other.isNull...) writes into
\* the backing array of vc.isNull when its capacity suffices, and otherwise makes an array
\* that has room to spare; vc.str().slice is a new array filled to its capacity
append(h, c, o) ==
    LET vc == h.vcs[c]
        other == h.vcs[o]
        retSlice == str(h, c) \o str(h, o)
        sliceCap == IF Len(str(h, o)) = 0 THEN Len(retSlice)
                    ELSE growslice(Len(str(h, c)), Len(retSlice), 16)
        onulls == ReadBool(h, other.isNull)
        total == vc.isNull.len + other.isNull.len
        inPlace == total <= CapBool(h, vc.isNull)
        sa == Len(h.strs) + 1
        ba == IF inPlace THEN vc.isNull.arr ELSE Len(h.bools) + 1
        written == [p \in 1..Len(h.bools[vc.isNull.arr]) |->
                      IF p > vc.isNull.off + vc.isNull.len /\ p <= vc.isNull.off + total
                      THEN onulls[p - vc.isNull.off - vc.isNull.len]
                      ELSE h.bools[vc.isNull.arr][p]]
        h1 == IF inPlace
              THEN [h EXCEPT !.bools[vc.isNull.arr] = written]
              ELSE [h EXCEPT !.bools = Append(@, Grown(ReadBool(h, vc.isNull) \o onulls,
                                                       growslice(CapBool(h, vc.isNull), total, 1),
                                                       FALSE))]
        retIsNull == MkSlice(ba, IF inPlace THEN vc.isNull.off ELSE 0, total)
    IN [h |-> [h1 EXCEPT !.strs = Append(@, Grown(retSlice, sliceCap, "")),
                         !.vcs = Append(@, MkVC("string", MkSlice(sa, 0, Len(retSlice)),
                                                retIsNull, vc.name))],
        id |-> Len(h.vcs) + 1]

(***************************************************************************)
(* Lists of containers.                                                    *)
(***************************************************************************)
\* findColWithName: position (from 1) of the first container whose name matches `name`
\* without regard to case, 0 when there is none
findColWithName(h, name, cols) ==
    LET hits == {j \in DOMAIN cols : ToLower(h.vcs[cols[j]].name) = ToLower(name)}
    IN IF hits = {} THEN 0 ELSE CHOOSE j \in hits : \A k \in hits : j <= k

\* the position of the first container called `name`, or -1 for the error of a
\* name no container has (the position returned with the error is 0)
indexOfContainer(name, containers) ==
    IF \E j \in DOMAIN containers : containers[j].name = name
    THEN (CHOOSE j \in DOMAIN containers :
            /\ containers[j].name = name
            /\ \A k \in 1..(j - 1) : containers[k].name # name) - 1
    ELSE -1

\* subsetCols: returns [cols, err, panic]; index holds positions from 0
subsetCols(cols, index) ==
    LET bad == {p \in DOMAIN index : index[p] >= Len(cols) \/ index[p] < 0}
        firstBad == CHOOSE p \in bad : \A q \in bad : p <= q
    IN IF bad = {} THEN [cols |-> [p \in DOMAIN index |-> cols[index[p] + 1]],
                         err |-> FALSE, panic |-> FALSE]
       ELSE IF index[firstBad] >= Len(cols) THEN [cols |-> <<>>, err |-> TRUE, panic |-> FALSE]
       ELSE [cols |-> <<>>, err |-> FALSE, panic |-> TRUE]

RECURSIVE excludeFromIndexFrom(_, _, _)
excludeFromIndexFrom(indexLength, item, i) ==
    IF i >= indexLength THEN <<>>
    ELSE (IF i # item THEN <<i>> ELSE <<>>) \o excludeFromIndexFrom(indexLength, item, i + 1)

\* excludeFromIndex: 0..indexLength-1 without `item`
excludeFromIndex(indexLength, item) == excludeFromIndexFrom(indexLength, item, 0)

\* makeIntRange
makeIntRange(min, max) == [i \in 1..(max - min) |-> min + i - 1]

\* removeDefaultNameIndicator: strips the leading asterisk of a synthetic name
removeDefaultNameIndicator(name) ==
    IF name = "*0" THEN "0" ELSE IF name = "*1" THEN "1" ELSE name

\* dropFromContainers: returns [cols, err]; drops the first container named `name`
dropFromContainers(h, name, cols) ==
    LET j == findColWithName(h, name, cols)
    IN IF j = 0 THEN [cols |-> <<>>, err |-> TRUE]
       ELSE [cols |-> SubSeq(cols, 1, j - 1) \o SubSeq(cols, j + 1, Len(cols)), err |-> FALSE]

\* inputs of WithCol / WithLabels besides the slices: a string renames, a *Series hands
\* over its value container, a pointer that is no *Series and a value of any other kind
\* are refused.  A *Series that carries an error has no value container (values = 0),
\* and Series.Len, which reads the container's slice, panics on it.
RenameTo(s) == [kind |-> "rename", to |-> s]
OtherPtr == [kind |-> "ptr"]

\* withColumn: returns [h, cols, err]
withColumn(h, cols, name, input, requiredLen) ==
    LET lvl == findColWithName(h, name, cols)
        bad == [h |-> h, cols |-> <<>>, err |-> TRUE]
    IN CASE input.kind = "rename" ->
              IF lvl = 0 THEN bad
              ELSE [h |-> [h EXCEPT !.vcs[cols[lvl]].name = input.to], cols |-> cols, err |-> FALSE]
         [] input.kind = "unsupported" -> bad
         [] input.kind = "series" ->
              IF input.values = 0 THEN [h |-> Panic(h), cols |-> cols, err |-> FALSE]
              ELSE IF h.vcs[input.values].slice.len # requiredLen THEN bad
              ELSE [h |-> [h EXCEPT !.vcs[input.values].name = name],
                    cols |-> IF lvl = 0 THEN Append(cols, input.values)
                             ELSE [cols EXCEPT ![lvl] = input.values],
                    err |-> FALSE]
         [] input.kind = "ptr" -> bad
         [] input.kind = "string" ->
              IF Len(input.vals) # requiredLen THEN bad
              ELSE LET isNull == setNullsFromInterface("string", input.vals)
                       sa == Len(h.strs) + 1
                       ba == Len(h.bools) + 1
                       h1 == [h EXCEPT !.strs = Append(@, input.vals), !.bools = Append(@, isNull)]
                       sl == MkSlice(sa, 0, Len(input.vals))
                       nl == MkSlice(ba, 0, Len(isNull))
                   IN IF lvl = 0
                      THEN [h |-> [h1 EXCEPT !.vcs = Append(@, MkVC("string", sl, nl, name))],
                            cols |-> Append(cols, Len(h.vcs) + 1), err |-> FALSE]
                      ELSE [h |-> [h1 EXCEPT !.vcs[cols[lvl]] =
                                       [@ EXCEPT !.kind = "string", !.slice = sl, !.isNull = nl]],
                            cols |-> cols, err |-> FALSE]
         [] OTHER -> bad

(***************************************************************************)
(* DataFrame methods.  A DataFrameMutator method returns the heap after    *)
(* the call; a DataFrame method returns [h, id], id being the handle of    *)
(* the DataFrame it returns.                                               *)
(***************************************************************************)
\* DataFrame.Len is values[0]'s length and panics on a DataFrame without values
HasLen(h, d) == Len(h.dfs[d].values) > 0
DFLen(h, d) == h.vcs[h.dfs[d].values[1]].slice.len

RECURSIVE SubsetValues(_, _, _, _, _)
\* DataFrameMutator.Subset, the loop over values: returns [h, err]
SubsetValues(h, d, ids, index, k) ==
    IF k > Len(ids) THEN [h |-> h, err |-> FALSE]
    ELSE LET r == subsetRows(h, ids[k], index)
         IN IF r.h.panic THEN r
            ELSE IF r.err THEN [h |-> resetWithError(r.h, d, "Subset"), err |-> TRUE]
            ELSE SubsetValues(r.h, d, ids, index, k + 1)

RECURSIVE SubsetLabelRows(_, _, _, _)
\* DataFrameMutator.Subset, the loop over labels: an error of subsetRows is dropped
SubsetLabelRows(h, ids, index, j) ==
    IF j > Len(ids) THEN h
    ELSE LET r == subsetRows(h, ids[j], index)
         IN IF r.h.panic THEN r.h ELSE SubsetLabelRows(r.h, ids, index, j + 1)

\* DataFrameMutator.Subset
MutatorSubset(h, d, index) ==
    LET v == SubsetValues(h, d, h.dfs[d].values, index, 1)
    IN IF v.h.panic \/ v.err THEN v.h
       ELSE SubsetLabelRows(v.h, h.dfs[d].labels, index, 1)

\* DataFrame.Subset
Subset(h, d, index) ==
    LET c == Copy(h, d)
    IN [h |-> MutatorSubset(c.h, c.id, index), id |-> c.id]

RECURSIVE DropRowValues(_, _, _, _, _)
\* DataFrameMutator.DropRow, the loop over values: returns [h, err]
DropRowValues(h, d, ids, index, k) ==
    IF k > Len(ids) THEN [h |-> h, err |-> FALSE]
    ELSE LET r == dropRow(h, ids[k], index)
         IN IF r.h.panic THEN r
            ELSE IF r.err THEN [h |-> resetWithError(r.h, d, "DropRow"), err |-> TRUE]
            ELSE DropRowValues(r.h, d, ids, index, k + 1)

RECURSIVE DropRowLabels(_, _, _, _)
\* DataFrameMutator.DropRow, the loop over labels: an error of dropRow is dropped
DropRowLabels(h, ids, index, j) ==
    IF j > Len(ids) THEN h
    ELSE LET r == dropRow(h, ids[j], index)
         IN IF r.h.panic THEN r.h ELSE DropRowLabels(r.h, ids, index, j + 1)

\* DataFrameMutator.DropRow
MutatorDropRow(h, d, index) ==
    LET v == DropRowValues(h, d, h.dfs[d].values, index, 1)
    IN IF v.h.panic \/ v.err THEN v.h
       ELSE DropRowLabels(v.h, h.dfs[d].labels, index, 1)

\* DataFrame.DropRow: the copy it makes is dropped, the receiver is changed and returned
DropRow(h, d, index) == [h |-> MutatorDropRow(h, d, index), id |-> d]

RECURSIVE windows(_, _, _, _, _, _, _)
\* head, tail or rangeSlice over a list of containers: returns [h, ids]
windows(h, ids, how, a, b, i, acc) ==
    IF i > Len(ids) THEN [h |-> h, ids |-> acc]
    ELSE LET r == CASE how = "head" -> head(h, ids[i], a)
                    [] how = "tail" -> tail(h, ids[i], a)
                    [] OTHER -> rangeSlice(h, ids[i], a, b)
         IN IF r.h.panic THEN [h |-> r.h, ids |-> <<>>]
            ELSE windows(r.h, ids, how, a, b, i + 1, Append(acc, r.id))

\* the DataFrame Head, Tail and Range build from the windows: returns [h, id]
Windowed(h, d, how, a, b) ==
    LET df == h.dfs[d]
        v == windows(h, df.values, how, a, b, 1, <<>>)
        l == windows(v.h, df.labels, how, a, b, 1, <<>>)
    IN IF v.h.panic THEN [h |-> v.h, id |-> 0]
       ELSE IF l.h.panic THEN [h |-> l.h, id |-> 0]
       ELSE NewDF(l.h, MkDF(l.ids, v.ids, df.name, Nil, df.colLevelNames))

\* DataFrame.Head
Head_(h, d, n) ==
    IF ~HasLen(h, d) THEN [h |-> Panic(h), id |-> 0]
    ELSE Windowed(h, d, "head", IF DFLen(h, d) < n THEN DFLen(h, d) ELSE n, 0)

\* DataFrame.Tail
Tail_(h, d, n) ==
    IF ~HasLen(h, d) THEN [h |-> Panic(h), id |-> 0]
    ELSE Windowed(h, d, "tail", IF DFLen(h, d) < n THEN DFLen(h, d) ELSE n, 0)

\* DataFrame.Range
Range(h, d, first, last) ==
    IF first > last THEN NewDF(h, dataFrameWithError("Range"))
    ELSE IF ~HasLen(h, d) THEN [h |-> Panic(h), id |-> 0]
    ELSE IF first >= DFLen(h, d) THEN NewDF(h, dataFrameWithError("Range"))
    ELSE IF last > DFLen(h, d) THEN NewDF(h, dataFrameWithError("Range"))
    ELSE Windowed(h, d, "range", first, last)

\* DataFrameMutator.WithLabels: after resetWithError the method goes on to store the
\* nil list withColumn returned
MutatorWithLabels(h, d, name, input) ==
    IF ~HasLen(h, d) THEN Panic(h)
    ELSE LET r == withColumn(h, h.dfs[d].labels, name, input, DFLen(h, d))
             h1 == IF r.err THEN resetWithError(r.h, d, "WithLabels") ELSE r.h
         IN [h1 EXCEPT !.dfs[d].labels = r.cols]

\* DataFrame.WithLabels: the copy it makes is dropped, the receiver is changed and returned
WithLabels(h, d, name, input) == [h |-> MutatorWithLabels(h, d, name, input), id |-> d]

\* DataFrameMutator.WithCol
MutatorWithCol(h, d, name, input) ==
    IF ~HasLen(h, d) THEN Panic(h)
    ELSE LET r == withColumn(h, h.dfs[d].values, name, input, DFLen(h, d))
             h1 == IF r.err THEN resetWithError(r.h, d, "WithCol") ELSE r.h
         IN [h1 EXCEPT !.dfs[d].values = r.cols]

\* DataFrame.WithCol: the copy it makes is dropped, the receiver is changed and returned
WithCol(h, d, name, input) == [h |-> MutatorWithCol(h, d, name, input), id |-> d]

\* DataFrameMutator.DropLabels
MutatorDropLabels(h, d, name) ==
    LET r == dropFromContainers(h, name, h.dfs[d].labels)
    IN IF r.err THEN resetWithError(h, d, "DropLabels")
       ELSE [h EXCEPT !.dfs[d].labels = r.cols]

\* DataFrame.DropLabels
DropLabels(h, d, name) == [h |-> MutatorDropLabels(h, d, name), id |-> d]

\* DataFrameMutator.DropCol
MutatorDropCol(h, d, name) ==
    LET r == dropFromContainers(h, name, h.dfs[d].values)
    IN IF r.err THEN resetWithError(h, d, "DropCol")
       ELSE [h EXCEPT !.dfs[d].values = r.cols]

\* DataFrame.DropCol
DropCol(h, d, name) == [h |-> MutatorDropCol(h, d, name), id |-> d]

RECURSIVE AppendLabels(_, _, _, _)
\* DataFrameMutator.Append, the loop over labels
AppendLabels(h, d, o, j) ==
    IF j > Len(h.dfs[d].labels) THEN h
    ELSE LET r == append(h, h.dfs[d].labels[j], h.dfs[o].labels[j])
         IN AppendLabels([r.h EXCEPT !.dfs[d].labels[j] = r.id], d, o, j + 1)

RECURSIVE AppendValues(_, _, _, _)
\* DataFrameMutator.Append, the loop over values
AppendValues(h, d, o, k) ==
    IF k > Len(h.dfs[d].values) THEN h
    ELSE LET r == append(h, h.dfs[d].values[k], h.dfs[o].values[k])
         IN AppendValues([r.h EXCEPT !.dfs[d].values[k] = r.id], d, o, k + 1)

\* DataFrameMutator.Append
MutatorAppend(h, d, o) ==
    IF Len(h.dfs[o].labels) # Len(h.dfs[d].labels) THEN resetWithError(h, d, "Append")
    ELSE IF Len(h.dfs[o].values) # Len(h.dfs[d].values) THEN resetWithError(h, d, "Append")
    ELSE AppendValues(AppendLabels(h, d, o, 1), d, o, 1)

\* DataFrame.Append: the copy it makes is dropped, the receiver is changed and returned
Append_(h, d, o) == [h |-> MutatorAppend(h, d, o), id |-> d]

RECURSIVE SetLabelsLoop(_, _, _, _)
\* DataFrameMutator.SetLabels, the loop over colNames
SetLabelsLoop(h, d, colNames, i) ==
    IF i > Len(colNames) THEN h
    ELSE LET index == indexOfContainer(colNames[i], [k \in DOMAIN h.dfs[d].values |->
                                                        h.vcs[h.dfs[d].values[k]]])
         IN IF index = -1 THEN resetWithError(h, d, "SetLabels")
            ELSE SetLabelsLoop(
                   MutatorDropCol([h EXCEPT !.dfs[d].labels =
                                               Append(@, h.dfs[d].values[index + 1])],
                                  d, colNames[i]),
                   d, colNames, i + 1)

\* DataFrameMutator.SetLabels
MutatorSetLabels(h, d, colNames) ==
    IF Len(colNames) >= Len(h.dfs[d].values) THEN resetWithError(h, d, "SetLabels")
    ELSE SetLabelsLoop(h, d, colNames, 1)

\* DataFrame.SetLabels: the copy it makes is dropped, the receiver is changed and returned
SetLabels(h, d, colNames) == [h |-> MutatorSetLabels(h, d, colNames), id |-> d]

RECURSIVE ResetLabelsLoop(_, _, _, _)
\* DataFrameMutator.ResetLabels, the loop over labelLevels: returns [h, done], done
\* when the method returned from inside the loop
ResetLabelsLoop(h, d, labelLevels, p) ==
    IF p > Len(labelLevels) THEN [h |-> h, done |-> FALSE]
    ELSE LET incrementor == p - 1
             adjustedIndex == labelLevels[p] - incrementor
             numLevels == Len(h.dfs[d].labels)
         IN IF adjustedIndex >= numLevels
            THEN [h |-> resetWithError(h, d, "ResetLabels"), done |-> TRUE]
            ELSE IF adjustedIndex < 0 THEN [h |-> Panic(h), done |-> TRUE]
            ELSE LET newVal == h.dfs[d].labels[adjustedIndex + 1]
                     exclude == excludeFromIndex(numLevels, adjustedIndex)
                     h1 == [h EXCEPT
                              !.vcs[newVal].name = removeDefaultNameIndicator(@),
                              !.dfs[d].values = Append(@, newVal),
                              !.dfs[d].labels = subsetCols(@, exclude).cols]
                 IN ResetLabelsLoop(h1, d, labelLevels, p + 1)

\* DataFrameMutator.ResetLabels
MutatorResetLabels(h, d, labelLevels) ==
    LET levels == IF Len(labelLevels) = 0 THEN makeIntRange(0, Len(h.dfs[d].labels))
                  ELSE labelLevels
        r == ResetLabelsLoop(h, d, levels, 1)
    IN IF r.done THEN r.h
       ELSE IF Len(r.h.dfs[d].labels) # 0 THEN r.h
       ELSE IF ~HasLen(r.h, d) THEN Panic(r.h)
       ELSE LET dl == makeDefaultLabels(r.h, 0, DFLen(r.h, d), TRUE)
            IN [dl.h EXCEPT !.dfs[d].labels = Append(@, dl.id)]

\* DataFrame.ResetLabels: the copy it makes is dropped, the receiver is changed and returned
ResetLabels(h, d, labelLevels) == [h |-> MutatorResetLabels(h, d, labelLevels), id |-> d]

\* isEitherNull: one flag per flag of isNull1; isNull2[i] is read only where isNull1[i] is
\* false
isEitherNull(isNull1, isNull2) == [i \in 1..Len(isNull1) |-> isNull1[i] \/ isNull2[i]]

\* DataFrameMutator.Apply with one entry name -> lambda; lambdaOK: a function is selected.
\* The result of valueContainer.apply is dropped, the null mask is rebuilt; after the
\* error of an unknown name the method goes on with position 0.  isEitherNull reads the
\* null flag of a cell only under a false flag of the mask: a false flag beyond the cells
\* is an index out of range, a mask shorter than the cells stays that short
MutatorApply(h, d, name, lambdaOK) ==
    LET mergedLabelsAndCols == h.dfs[d].labels \o h.dfs[d].values
        index == indexOfContainer(name, [k \in DOMAIN mergedLabelsAndCols |->
                                                h.vcs[mergedLabelsAndCols[k]]])
        h1 == IF index = -1 THEN resetWithError(h, d, "Apply") ELSE h
        c == mergedLabelsAndCols[IF index = -1 THEN 1 ELSE index + 1]
        vc == h.vcs[c]
        flags == ReadBool(h, vc.isNull)
        nulls == setNullsFromInterface(vc.kind, ReadStr(h, vc.slice))
    IN IF ~lambdaOK THEN resetWithError(h, d, "Apply")
       ELSE IF Len(mergedLabelsAndCols) = 0 THEN Panic(h1)
       ELSE IF \E i \in DOMAIN flags : ~flags[i] /\ i > Len(nulls) THEN Panic(h1)
       ELSE [h1 EXCEPT !.bools = Append(@, isEitherNull(flags, nulls)),
                       !.vcs[c].isNull = MkSlice(Len(h.bools) + 1, 0, Len(flags))]

\* DataFrame.Apply: the copy it makes is dropped, the receiver is changed and returned
Apply(h, d, name, lambdaOK) == [h |-> MutatorApply(h, d, name, lambdaOK), id |-> d]

(***************************************************************************)
(* What a caller can observe of a DataFrame.                               *)
(***************************************************************************)
ContainerView(h, c) ==
    [name |-> h.vcs[c].name, kind |-> h.vcs[c].kind,
     vals |-> ReadStr(h, h.vcs[c].slice), nulls |-> ReadBool(h, h.vcs[c].isNull)]

View(h, d) ==
    [labels |-> [j \in DOMAIN h.dfs[d].labels |-> ContainerView(h, h.dfs[d].labels[j])],
     values |-> [k \in DOMAIN h.dfs[d].values |-> ContainerView(h, h.dfs[d].values[k])],
     name |-> h.dfs[d].name, err |-> h.dfs[d].err, colLevelNames |-> h.dfs[d].colLevelNames]

Views(h) == [d \in DOMAIN h.dfs |-> View(h, d)]

(***************************************************************************)
(* The table machine: a program that builds DataFrames and calls their     *)
(* methods, one call per step.  A panic ends the run.                      *)
(***************************************************************************)
\* arguments the calls are made with
IndexVals == -1..MaxRows
IndexLists == SeqsUpTo(IndexVals, 1) \cup {<<1, 0>>}
Counts == {-1, 1, MaxRows}
RangeArgs == {<<-1, 0>>, <<0, 1>>, <<1, MaxRows>>, <<1, 0>>, <<0, MaxRows + 1>>,
              <<MaxRows, MaxRows>>}
ColNameArgs == {"0", "x"}
LabelNameArgs == {"*0", "x"}
WithInputs == {StrInput(StringSlice(1)), StrInput(StringSlice(MaxRows)), RenameTo("x"), OtherPtr,
               NotASlice}
NameLists == {<<>>, <<"0">>, <<"1">>, <<"x">>, <<"0", "1">>}
LevelLists == {<<>>, <<0>>, <<1>>, <<-1>>, <<0, 0>>}
SliceLists ==
    {NilSlices} \cup
    {SliceArg(l) : l \in SeqsUpTo({StrInput(StringSlice(n)) : n \in 1..MaxRows}, 2)} \cup
    {SliceArg(<<x>>) : x \in {NotASlice, UnsupportedSlice, StrInput(<<>>)}}
LabelLists == {<<>>, <<StrInput(StringSlice(MaxRows))>>}

InitTable ==
    /\ dfs = <<>>
    /\ vcs = <<>>
    /\ strs = <<>>
    /\ bools = <<>>
    /\ panicked = FALSE
    /\ lastOp = [op |-> "init", inplace |-> FALSE, recv |-> 0, ret |-> 0, args |-> <<>>,
                 pre |-> <<>>]
    /\ copies = {}
    /\ steps = 0

\* one call: r = [h, id] is what the method computed from the current heap
Call(op, inplace, recv, args, r) ==
    /\ steps < MaxOps
    /\ ~panicked
    /\ steps' = steps + 1
    /\ lastOp' = [op |-> op, inplace |-> inplace, recv |-> recv,
                  ret |-> IF r.h.panic THEN 0 ELSE r.id, args |-> args, pre |-> Views(Cur)]
    /\ panicked' = r.h.panic
    /\ IF r.h.panic THEN UNCHANGED <<dfs, vcs, strs, bools>> ELSE Commit(r.h)

\* a call that returns a new DataFrame object needs room for it
Room == Len(dfs) < MaxDFs

DoNewDataFrame ==
    \E slices \in SliceLists, labels \in LabelLists :
        /\ Room
        /\ Call("NewDataFrame", FALSE, 0, [slices |-> slices, labels |-> labels],
                NewDataFrame(Cur, slices, labels))
        /\ UNCHANGED <<copies, gvars>>

DoCopy ==
    \E d \in DOMAIN dfs :
        /\ Room
        /\ Call("Copy", FALSE, d, <<>>, Copy(Cur, d))
        /\ copies' = copies \cup {<<d, Len(dfs) + 1>>}
        /\ UNCHANGED gvars

DoSubset ==
    \E d \in DOMAIN dfs, index \in IndexLists :
        /\ Room
        /\ Call("Subset", FALSE, d, [index |-> index], Subset(Cur, d, index))
        /\ UNCHANGED <<copies, gvars>>

DoMutatorSubset ==
    \E d \in DOMAIN dfs, index \in IndexLists :
        /\ Call("Subset", TRUE, d, [index |-> index], [h |-> MutatorSubset(Cur, d, index), id |-> d])
        /\ UNCHANGED <<copies, gvars>>

DoDropRow ==
    \E d \in DOMAIN dfs, index \in IndexVals, inplace \in BOOLEAN :
        /\ Call("DropRow", inplace, d, [index |-> index], DropRow(Cur, d, index))
        /\ UNCHANGED <<copies, gvars>>

DoHead ==
    \E d \in DOMAIN dfs, n \in Counts :
        /\ Room
        /\ Call("Head", FALSE, d, [n |-> n], Head_(Cur, d, n))
        /\ UNCHANGED <<copies, gvars>>

DoTail ==
    \E d \in DOMAIN dfs, n \in Counts :
        /\ Room
        /\ Call("Tail", FALSE, d, [n |-> n], Tail_(Cur, d, n))
        /\ UNCHANGED <<copies, gvars>>

DoRange ==
    \E d \in DOMAIN dfs, a \in RangeArgs :
        /\ Room
        /\ Call("Range", FALSE, d, [first |-> a[1], last |-> a[2]], Range(Cur, d, a[1], a[2]))
        /\ UNCHANGED <<copies, gvars>>

DoWithCol ==
    \E d \in DOMAIN dfs, name \in ColNameArgs, input \in WithInputs, inplace \in BOOLEAN :
        /\ Call("WithCol", inplace, d, [name |-> name, input |-> input],
                WithCol(Cur, d, name, input))
        /\ UNCHANGED <<copies, gvars>>

DoWithLabels ==
    \E d \in DOMAIN dfs, name \in LabelNameArgs, input \in WithInputs, inplace \in BOOLEAN :
        /\ Call("WithLabels", inplace, d, [name |-> name, input |-> input],
                WithLabels(Cur, d, name, input))
        /\ UNCHANGED <<copies, gvars>>

DoDropCol ==
    \E d \in DOMAIN dfs, name \in ColNameArgs, inplace \in BOOLEAN :
        /\ Call("DropCol", inplace, d, [name |-> name], DropCol(Cur, d, name))
        /\ UNCHANGED <<copies, gvars>>

DoDropLabels ==
    \E d \in DOMAIN dfs, name \in LabelNameArgs, inplace \in BOOLEAN :
        /\ Call("DropLabels", inplace, d, [name |-> name], DropLabels(Cur, d, name))
        /\ UNCHANGED <<copies, gvars>>

DoAppend ==
    \E d \in DOMAIN dfs, o \in DOMAIN dfs, inplace \in BOOLEAN :
        /\ Call("Append", inplace, d, [other |-> o], Append_(Cur, d, o))
        /\ UNCHANGED <<copies, gvars>>

DoSetLabels ==
    \E d \in DOMAIN dfs, colNames \in NameLists, inplace \in BOOLEAN :
        /\ Call("SetLabels", inplace, d, [colNames |-> colNames], SetLabels(Cur, d, colNames))
        /\ UNCHANGED <<copies, gvars>>

DoResetLabels ==
    \E d \in DOMAIN dfs, labelLevels \in LevelLists, inplace \in BOOLEAN :
        /\ Call("ResetLabels", inplace, d, [labelLevels |-> labelLevels],
                ResetLabels(Cur, d, labelLevels))
        /\ UNCHANGED <<copies, gvars>>

DoApply ==
    \E d \in DOMAIN dfs, name \in ColNameArgs \cup LabelNameArgs, lambdaOK \in BOOLEAN,
       inplace \in BOOLEAN :
        /\ Call("Apply", inplace, d, [name |-> name, lambdaOK |-> lambdaOK],
                Apply(Cur, d, name, lambdaOK))
        /\ UNCHANGED <<copies, gvars>>

InitGroupIdle ==
    /\ gin = <<>>
    /\ grp = <<>>
    /\ gout = <<>>

Init == InitTable /\ InitGroupIdle


(***************************************************************************)
(* Properties of the table machine.  lastOp.pre holds what every DataFrame *)
(* showed before the last call.                                            *)
(***************************************************************************)
\* the sticky-error state: no values, no labels, no name, no column levels, an error
IsReset(df) ==
    /\ df.values = <<>>
    /\ df.labels = <<>>
    /\ df.name = ""
    /\ df.colLevelNames = <<>>
    /\ df.err # Nil

\* the receiver of the last call, as it was before the call
PreRecv == lastOp.pre[lastOp.recv]
CalledOn == lastOp.recv # 0
\* before the call the receiver was free of error and had at least one column
PreUsable == CalledOn /\ PreRecv.err = Nil /\ PreRecv.values # <<>>
PreRows == Len(PreRecv.values[1].vals)
\* before the call all columns and labels of the receiver had PreRows rows
PreRectangular ==
    /\ PreUsable
    /\ \A k \in DOMAIN PreRecv.values :
          Len(PreRecv.values[k].vals) = PreRows /\ Len(PreRecv.values[k].nulls) = PreRows
    /\ \A j \in DOMAIN PreRecv.labels :
          Len(PreRecv.labels[j].vals) = PreRows /\ Len(PreRecv.labels[j].nulls) = PreRows
NamesOf(cols) == {ToLower(cols[j].name) : j \in DOMAIN cols}

\* C1: df.Copy() shows the same values, null masks, labels, names, column level names and
\* error as df, and no later call on the copy changes what df shows, nor the reverse.
\* A pair <<original, copy>> is followed until the caller hands a Series of one side
\* (df.Col, which shares the column's container) to WithCol or WithLabels on the other:
\* from then on the two share that container because withColumn stores it, not through Copy.
ThmC1 ==
    /\ (lastOp.op = "Copy" /\ ~panicked)
          => View(Cur, lastOp.ret) = View(Cur, lastOp.recv)
    /\ \A pair \in copies :
          /\ (lastOp.recv = pair[2] /\ pair[1] \in DOMAIN lastOp.pre)
                => View(Cur, pair[1]) = lastOp.pre[pair[1]]
          /\ (lastOp.recv = pair[1] /\ pair[2] \in DOMAIN lastOp.pre)
                => View(Cur, pair[2]) = lastOp.pre[pair[2]]

\* a call changed a copy of a DataFrame with rows, and the original is still there
WitC1 ==
    \E pair \in copies :
        /\ lastOp.recv = pair[2]
        /\ pair[2] \in DOMAIN lastOp.pre
        /\ ~panicked
        /\ View(Cur, pair[2]) # lastOp.pre[pair[2]]
        /\ dfs[pair[1]].err = Nil
        /\ View(Cur, pair[1]).values # <<>>

\* the methods documented to return a new DataFrame
CopyReturning ==
    {"WithCol", "WithLabels", "DropCol", "DropLabels", "DropRow", "Append", "SetLabels",
     "ResetLabels", "Filter", "Apply", "ApplyFormat", "Merge", "Subset", "FillNull"}

\* C2: a copy-returning method leaves its receiver as it was, whether the call succeeds
\* or ends in an error.
CexC2 ==
    (PreRectangular /\ lastOp.op \in CopyReturning /\ ~lastOp.inplace /\ ~panicked)
        => View(Cur, lastOp.recv) = PreRecv

\* the row index handed to the last call lies outside 0..PreRows-1
RowIndexOutOfRange ==
    CASE lastOp.op = "Subset" ->
            \E p \in DOMAIN lastOp.args.index :
                lastOp.args.index[p] < 0 \/ lastOp.args.index[p] >= PreRows
      [] lastOp.op = "DropRow" -> lastOp.args.index < 0 \/ lastOp.args.index >= PreRows
      [] lastOp.op = "Range" ->
            \/ lastOp.args.first < 0 \/ lastOp.args.first >= PreRows
            \/ lastOp.args.last < 0 \/ lastOp.args.last > PreRows
      [] OTHER -> FALSE

\* C3: Subset, Range and DropRow with a row index that is negative or not below the row
\* count end in the sticky-error state: no panic, no truncated or partial result.
CexC3 ==
    (PreRectangular /\ RowIndexOutOfRange)
        => (~panicked /\ IsReset(dfs[lastOp.ret]))

\* the rows of the Series df.Col("0") handed to the last call, before the call
SeriesRows ==
    LET cols == lastOp.pre[lastOp.args.input.from].values
        k == CHOOSE k \in DOMAIN cols :
                 /\ ToLower(cols[k].name) = "0"
                 /\ \A o \in 1..(k - 1) : ToLower(cols[o].name) # "0"
    IN Len(cols[k].vals)

\* the error conditions of the in-place operations
ErrorDetected ==
    CASE lastOp.op = "DropCol" -> ToLower(lastOp.args.name) \notin NamesOf(PreRecv.values)
      [] lastOp.op = "DropLabels" -> ToLower(lastOp.args.name) \notin NamesOf(PreRecv.labels)
      [] lastOp.op = "SetLabels" ->
            \E p \in DOMAIN lastOp.args.colNames :
                ToLower(lastOp.args.colNames[p]) \notin NamesOf(PreRecv.values)
      [] lastOp.op \in {"Apply", "ApplyFormat", "FillNull"} ->
            ToLower(lastOp.args.name) \notin NamesOf(PreRecv.labels \o PreRecv.values)
      [] lastOp.op \in {"WithCol", "WithLabels"} ->
            \/ lastOp.args.input.kind \in {"scalar", "unsupported", "ptr"}
            \/ lastOp.args.input.kind = "string" /\ Len(lastOp.args.input.vals) # PreRows
            \/ /\ lastOp.args.input.kind = "series"
               /\ lastOp.args.input.values # 0
               /\ SeriesRows # PreRows
      [] lastOp.op = "SubsetCols" ->
            \E p \in DOMAIN lastOp.args.index :
                lastOp.args.index[p] < 0 \/ lastOp.args.index[p] >= Len(PreRecv.values)
      [] lastOp.op = "SubsetLabels" ->
            \E p \in DOMAIN lastOp.args.index :
                lastOp.args.index[p] < 0 \/ lastOp.args.index[p] >= Len(PreRecv.labels)
      [] lastOp.op \in {"Subset", "DropRow"} -> RowIndexOutOfRange
      [] lastOp.op = "ResetLabels" ->
            \E p \in DOMAIN lastOp.args.labelLevels :
                \/ lastOp.args.labelLevels[p] < 0
                \/ lastOp.args.labelLevels[p] >= Len(PreRecv.labels)
      [] lastOp.op = "Append" ->
            \/ Len(lastOp.pre[lastOp.args.other].labels) # Len(PreRecv.labels)
            \/ Len(lastOp.pre[lastOp.args.other].values) # Len(PreRecv.values)
      [] OTHER -> FALSE

\* C4: an in-place operation that detects an error leaves its DataFrame with no values,
\* no labels, an empty name, no column level names and the error set.
CexC4 ==
    (PreRectangular /\ lastOp.inplace /\ ErrorDetected)
        => (~panicked /\ IsReset(dfs[lastOp.recv]))

\* C5: once a DataFrame carries an error, every later call on it short-circuits: it does
\* not panic, the error stays, values and labels stay empty.
CexC5 ==
    (CalledOn /\ PreRecv.err # Nil)
        => /\ ~panicked
           /\ dfs[lastOp.recv].err # Nil
           /\ dfs[lastOp.recv].values = <<>>
           /\ dfs[lastOp.recv].labels = <<>>

\* all columns, labels and null masks of DataFrame d have one length
Rectangular(d) ==
    LET cols == dfs[d].labels \o dfs[d].values
    IN \A j \in DOMAIN cols :
          /\ vcs[cols[j]].slice.len = vcs[cols[1]].slice.len
          /\ vcs[cols[j]].isNull.len = vcs[cols[j]].slice.len

\* C6: every DataFrame without error has value columns, label columns and null masks of
\* one common length; NewDataFrame with slices of differing lengths returns an error.
CexC6 == \A d \in DOMAIN dfs : dfs[d].err = Nil => Rectangular(d)

\* the last call was the copying Subset, with an index list that is within the rows of
\* every container the receiver had
SubsetInBounds ==
    /\ lastOp.op = "Subset" /\ ~lastOp.inplace /\ ~panicked
    /\ PreUsable
    /\ \A p \in DOMAIN lastOp.args.index :
          /\ lastOp.args.index[p] >= 0
          /\ \A k \in DOMAIN PreRecv.values :
                /\ lastOp.args.index[p] < Len(PreRecv.values[k].vals)
                /\ lastOp.args.index[p] < Len(PreRecv.values[k].nulls)
          /\ \A j \in DOMAIN PreRecv.labels :
                /\ lastOp.args.index[p] < Len(PreRecv.labels[j].vals)
                /\ lastOp.args.index[p] < Len(PreRecv.labels[j].nulls)

\* the ranges Range accepts on a table of n rows
RangesWithin(n) == {r \in (0..n) \X (0..n) : r[1] <= r[2] /\ r[1] < n}

\* C16: for an in-bounds index list idx and an in-bounds range (a, b) over idx,
\* df.Subset(idx).Range(a, b) shows the same rows in the same order as df.Subset of the
\* positions a..b-1 of idx.
ThmC16 ==
    SubsetInBounds =>
        \A r \in RangesWithin(Len(lastOp.args.index)) :
            LET ranged == Range(Cur, lastOp.ret, r[1], r[2])
                single == Subset(Cur, lastOp.recv, SubSeq(lastOp.args.index, r[1] + 1, r[2]))
            IN /\ ~ranged.h.panic /\ ~single.h.panic
               /\ View(ranged.h, ranged.id) = View(single.h, single.id)

\* Subset reordered a table of two different rows
WitC16 ==
    /\ SubsetInBounds
    /\ lastOp.args.index = <<1, 0>>
    /\ PreRecv.values[1].vals[1] # PreRecv.values[1].vals[2]
    /\ View(Cur, lastOp.ret).values[1].vals = <<PreRecv.values[1].vals[2], PreRecv.values[1].vals[1]>>

(***************************************************************************)
(* Part II.  The grouping engine.  A float64 is modelled as an exact       *)
(* fraction num/den in lowest terms; NaN is the fraction 0/0.  Row         *)
(* positions count from 0, as in the Go code.                              *)
(***************************************************************************)
\* rows of a generated grouping input
MaxGroupRows == 3
\* largest value of a generated grouping input
MaxVal == 3

RECURSIVE GCD(_, _)
GCD(a, b) == IF b = 0 THEN a ELSE GCD(b, a % b)

\* the float64 n / d, d > 0
Quot(n, d) ==
    LET g == GCD(IF n < 0 THEN -n ELSE n, d)
    IN [num |-> n \div g, den |-> d \div g]

\* the float64 of an integer
F(n) == [num |-> n, den |-> 1]
NaN == [num |-> 0, den |-> 0]

RECURSIVE Join(_, _)
\* strings.Join
Join(components, sep) ==
    IF Len(components) = 0 THEN ""
    ELSE IF Len(components) = 1 THEN components[1]
    ELSE components[1] \o sep \o Join(Tail(components), sep)

\* labelsToMap, one pass of the loop over the rows: row i has composite key `key`
labelsToMapPrepend(m, key, i) ==
    IF key \notin DOMAIN m.allIndex
    THEN [allIndex |-> (key :> <<i>>) @@ m.allIndex,
          firstIndex |-> (key :> i) @@ m.firstIndex,
          orderedKeyIndex |-> (key :> Len(m.orderedKeys)) @@ m.orderedKeyIndex,
          orderedKeys |-> <<key>> \o m.orderedKeys,
          originalIndexToUniqueIndex |-> (i :> Len(m.orderedKeys)) @@ m.originalIndexToUniqueIndex]
    ELSE [m EXCEPT !.allIndex[key] = Append(@, i),
                   !.originalIndexToUniqueIndex = (i :> m.orderedKeyIndex[key]) @@ @]

labelsToMapRow(m, key, i) ==
    IF key \notin DOMAIN m.allIndex
    THEN [allIndex |-> (key :> <<i>>) @@ m.allIndex,
          firstIndex |-> (key :> i) @@ m.firstIndex,
          orderedKeyIndex |-> (key :> Len(m.orderedKeys)) @@ m.orderedKeyIndex,
          orderedKeys |-> Append(m.orderedKeys, key),
          originalIndexToUniqueIndex |-> (i :> Len(m.orderedKeys)) @@ m.originalIndexToUniqueIndex]
    ELSE [m EXCEPT !.allIndex[key] = Append(@, i),
                   !.originalIndexToUniqueIndex = (i :> m.orderedKeyIndex[key]) @@ @]

RECURSIVE labelsToMapLoop(_, _, _, _)
labelsToMapLoop(labelStrings, l, i, m) ==
    IF i >= l THEN m
    ELSE LET labelComponents == [j \in 1..Len(labelStrings) |-> labelStrings[j][i + 1]]
             key == Join(labelComponents, "|")
         IN labelsToMapLoop(labelStrings, l, i + 1, labelsToMapRow(m, key, i))

\* labelsToMap: labels is a list of string columns, index the levels to use (from 0)
labelsToMap(labels, index) ==
    LET labelStrings == [j \in 1..Len(index) |-> labels[index[j] + 1]]
        empty == [allIndex |-> <<>>, firstIndex |-> <<>>, orderedKeyIndex |-> <<>>,
                  orderedKeys |-> <<>>, originalIndexToUniqueIndex |-> <<>>]
    IN labelsToMapLoop(labelStrings, Len(labelStrings[1]), 0, empty)

\* reduceContainers: the grouping of the rows of `containers` by all of its columns
reduceContainers(containers) ==
    LET m == labelsToMap(containers, makeIntRange(0, Len(containers)))
        n == Len(m.orderedKeys)
    IN [orderedKeys |-> m.orderedKeys,
        rowIndices |-> [i \in 1..n |-> m.allIndex[m.orderedKeys[i]]],
        labels |-> [j \in 1..Len(containers) |->
                      [i \in 1..n |-> containers[j][m.firstIndex[m.orderedKeys[i]] + 1]]]]

\* DataFrame.groupby over the key columns at the positions `index`
groupby(mergedLabelsAndCols, index) ==
    LET containers == [p \in 1..Len(index) |-> mergedLabelsAndCols[index[p] + 1]]
    IN reduceContainers(containers)

RECURSIVE sumLoop(_, _, _, _, _)
\* the loop of sum and of mean: acc = [sum, counter, atLeastOneValid]
sumLoop(vals, isNull, index, p, acc) ==
    IF p > Len(index) THEN acc
    ELSE LET i == index[p]
         IN sumLoop(vals, isNull, index, p + 1,
                    IF ~isNull[i + 1]
                    THEN [sum |-> acc.sum + vals[i + 1], counter |-> acc.counter + 1,
                          atLeastOneValid |-> TRUE]
                    ELSE acc)

RECURSIVE sumLoopWithNulls(_, _, _, _, _)
sumLoopWithNulls(vals, isNull, index, p, acc) ==
    IF p > Len(index) THEN acc
    ELSE LET i == index[p]
         IN sumLoopWithNulls(vals, isNull, index, p + 1,
                    [sum |-> acc.sum + vals[i + 1], counter |-> acc.counter + 1,
                     atLeastOneValid |-> acc.atLeastOneValid \/ ~isNull[i + 1]])

\* sum: returns [val, isNull]
sumCountingNulls(vals, isNull, index) ==
    LET r == sumLoopWithNulls(vals, isNull, index, 1,
                              [sum |-> 0, counter |-> 0, atLeastOneValid |-> FALSE])
    IN IF ~r.atLeastOneValid THEN [val |-> F(0), isNull |-> TRUE]
       ELSE [val |-> F(r.sum), isNull |-> FALSE]

sum(vals, isNull, index) ==
    LET r == sumLoop(vals, isNull, index, 1, [sum |-> 0, counter |-> 0, atLeastOneValid |-> FALSE])
    IN IF ~r.atLeastOneValid THEN [val |-> F(0), isNull |-> TRUE]
       ELSE [val |-> F(r.sum), isNull |-> FALSE]

\* mean: returns [val, isNull]
meanOverAllRows(vals, isNull, index) ==
    LET r == sumLoop(vals, isNull, index, 1, [sum |-> 0, counter |-> 0, atLeastOneValid |-> FALSE])
    IN IF ~r.atLeastOneValid THEN [val |-> F(0), isNull |-> TRUE]
       ELSE [val |-> Quot(r.sum, Len(index)), isNull |-> FALSE]

mean(vals, isNull, index) ==
    LET r == sumLoop(vals, isNull, index, 1, [sum |-> 0, counter |-> 0, atLeastOneValid |-> FALSE])
    IN IF ~r.atLeastOneValid THEN [val |-> F(0), isNull |-> TRUE]
       ELSE [val |-> Quot(r.sum, r.counter), isNull |-> FALSE]

RECURSIVE validData(_, _, _, _)
\* the non-null values at the index positions, in index order
validData(vals, isNull, index, p) ==
    IF p > Len(index) THEN <<>>
    ELSE (IF ~isNull[index[p] + 1] THEN <<vals[index[p] + 1]>> ELSE <<>>)
         \o validData(vals, isNull, index, p + 1)

RECURSIVE Float64s(_)
\* sort.Float64s: ascending order
Float64s(data) ==
    IF Len(data) <= 1 THEN data
    ELSE LET least == CHOOSE p \in DOMAIN data : \A q \in DOMAIN data : data[p] <= data[q]
         IN <<data[least]>> \o
            Float64s(SubSeq(data, 1, least - 1) \o SubSeq(data, least + 1, Len(data)))

\* median: returns [val, isNull]
medianUpperMiddle(vals, isNull, index) ==
    LET data == Float64s(validData(vals, isNull, index, 1))
        mNumber == Len(data) \div 2
    IN IF Len(data) = 0 THEN [val |-> NaN, isNull |-> TRUE]
       ELSE [val |-> F(data[mNumber + 1]), isNull |-> FALSE]

median(vals, isNull, index) ==
    LET data == Float64s(validData(vals, isNull, index, 1))
        mNumber == Len(data) \div 2
    IN IF Len(data) = 0 THEN [val |-> NaN, isNull |-> TRUE]
       ELSE IF Len(data) % 2 # 0 THEN [val |-> F(data[mNumber + 1]), isNull |-> FALSE]
       ELSE [val |-> Quot(data[mNumber] + data[mNumber + 1], 2), isNull |-> FALSE]

RECURSIVE ISqrt(_, _)
\* the largest r >= from with r * r <= n (n if there is none)
ISqrt(n, from) == IF (from + 1) * (from + 1) > n THEN from ELSE ISqrt(n, from + 1)

\* math.Pow(x, 0.5) of the float64 x >= 0: the exact root when x is the square of a
\* fraction, and otherwise the irrational root of the radicand x
PowHalf(x) ==
    LET n == ISqrt(x.num, 0)
        d == ISqrt(x.den, 0)
    IN IF n * n = x.num /\ d * d = x.den THEN [num |-> n, den |-> d]
       ELSE [radicand |-> x]

RECURSIVE stdLoop(_, _, _, _, _, _)
\* the loop of std: acc = [variance, counter, atLeastOneValid], where variance is the
\* numerator of the sum of (vals[i] - m)^2 over the denominator m.den^2
stdLoop(vals, isNull, index, m, p, acc) ==
    IF p > Len(index) THEN acc
    ELSE LET i == index[p]
             dev == vals[i + 1] * m.den - m.num
         IN stdLoop(vals, isNull, index, m, p + 1,
                    IF ~isNull[i + 1]
                    THEN [variance |-> acc.variance + dev * dev, counter |-> acc.counter + 1,
                          atLeastOneValid |-> TRUE]
                    ELSE acc)

\* std: returns [val, isNull]
stdSample(vals, isNull, index) ==
    LET m == mean(vals, isNull, index).val
        r == stdLoop(vals, isNull, index, m, 1,
                     [variance |-> 0, counter |-> 0, atLeastOneValid |-> FALSE])
    IN IF ~r.atLeastOneValid THEN [val |-> F(0), isNull |-> TRUE]
       ELSE IF r.counter = 1 THEN [val |-> NaN, isNull |-> FALSE]
       ELSE [val |-> PowHalf(Quot(r.variance, m.den * m.den * (r.counter - 1))),
             isNull |-> FALSE]

std(vals, isNull, index) ==
    LET m == mean(vals, isNull, index).val
        r == stdLoop(vals, isNull, index, m, 1,
                     [variance |-> 0, counter |-> 0, atLeastOneValid |-> FALSE])
    IN IF ~r.atLeastOneValid THEN [val |-> F(0), isNull |-> TRUE]
       ELSE [val |-> PowHalf(Quot(r.variance, m.den * m.den * r.counter)), isNull |-> FALSE]

\* count, min and max: return [val, isNull]
count(vals, isNull, index) ==
    LET data == validData(vals, isNull, index, 1)
    IN IF Len(data) = 0 THEN [val |-> F(0), isNull |-> TRUE]
       ELSE [val |-> F(Len(data)), isNull |-> FALSE]

min(vals, isNull, index) ==
    LET data == Float64s(validData(vals, isNull, index, 1))
    IN IF Len(data) = 0 THEN [val |-> F(0), isNull |-> TRUE]
       ELSE [val |-> F(data[1]), isNull |-> FALSE]

max(vals, isNull, index) ==
    LET data == Float64s(validData(vals, isNull, index, 1))
    IN IF Len(data) = 0 THEN [val |-> F(0), isNull |-> TRUE]
       ELSE [val |-> F(data[Len(data)]), isNull |-> FALSE]

\* time.Time values are counted in days; time.Time{} is day 0 and earliest starts from
\* the first day of the year 10000
ZeroTime == 0
FarFuture == 10000

RECURSIVE earliestLoop(_, _, _, _, _)
\* the loops of earliest (before = TRUE) and of latest: acc = [val, atLeastOneValid]
earliestLoop(vals, isNull, index, before, acc) ==
    IF index = <<>> THEN acc
    ELSE LET v == vals[index[1] + 1]
         IN earliestLoop(vals, isNull, Tail(index), before,
               IF isNull[index[1] + 1] THEN acc
               ELSE [val |-> IF (before /\ v < acc.val) \/ (~before /\ v > acc.val)
                             THEN v ELSE acc.val,
                     atLeastOneValid |-> TRUE])

\* earliest and latest: return [val, isNull]
earliest(vals, isNull, index) ==
    LET r == earliestLoop(vals, isNull, index, TRUE, [val |-> FarFuture, atLeastOneValid |-> FALSE])
    IN IF ~r.atLeastOneValid THEN [val |-> F(ZeroTime), isNull |-> TRUE]
       ELSE [val |-> F(r.val), isNull |-> FALSE]

latest(vals, isNull, index) ==
    LET r == earliestLoop(vals, isNull, index, FALSE, [val |-> ZeroTime, atLeastOneValid |-> FALSE])
    IN IF ~r.atLeastOneValid THEN [val |-> F(ZeroTime), isNull |-> TRUE]
       ELSE [val |-> F(r.val), isNull |-> FALSE]

\* first and last: the first and the last non-null value of the group
first(vals, isNull, index) ==
    LET data == validData(vals, isNull, index, 1)
    IN IF data = <<>> THEN [val |-> F(0), isNull |-> TRUE]
       ELSE [val |-> F(data[1]), isNull |-> FALSE]

last(vals, isNull, index) ==
    LET data == validData(vals, isNull, index, 1)
    IN IF data = <<>> THEN [val |-> F(0), isNull |-> TRUE]
       ELSE [val |-> F(data[Len(data)]), isNull |-> FALSE]

\* a reducer a caller supplies in the simplified form func([]float64) float64: the
\* number of values handed to it, less one
SimplifiedFn(inputVals) == F(Len(inputVals) - 1)

\* convertSimplifiedFloat64Func: the wrapper that hands the non-null values to the
\* caller's function; returns [val, isNull]
convertSimplifiedFloat64FuncUnguarded(vals, isNull, index) ==
    [val |-> SimplifiedFn(validData(vals, isNull, index, 1)), isNull |-> FALSE]

convertSimplifiedFloat64Func(vals, isNull, index) ==
    LET inputVals == validData(vals, isNull, index, 1)
    IN IF inputVals = <<>> THEN [val |-> F(0), isNull |-> TRUE]
       ELSE [val |-> SimplifiedFn(inputVals), isNull |-> FALSE]

\* the reducer passed as `fn`
reduceWith(fn, vals, isNull, index) ==
    CASE fn = "sum" -> sum(vals, isNull, index)
      [] fn = "mean" -> mean(vals, isNull, index)
      [] fn = "std" -> std(vals, isNull, index)
      [] fn = "count" -> count(vals, isNull, index)
      [] fn = "min" -> min(vals, isNull, index)
      [] fn = "max" -> max(vals, isNull, index)
      [] fn = "first" -> first(vals, isNull, index)
      [] fn = "last" -> last(vals, isNull, index)
      [] fn = "earliest" -> earliest(vals, isNull, index)
      [] fn = "latest" -> latest(vals, isNull, index)
      [] fn = "custom" -> convertSimplifiedFloat64Func(vals, isNull, index)
      [] OTHER -> median(vals, isNull, index)

RECURSIVE groupedFloat64FuncLoop(_, _, _, _, _, _, _)
\* the loop of groupedFloat64Func over the groups; ret = [slice, isNull]
groupedFloat64FuncLoop(vals, nulls, aligned, rowIndices, fn, i, ret) ==
    IF i > Len(rowIndices) THEN ret
    ELSE LET rowIndex == rowIndices[i]
             out == reduceWith(fn, vals, nulls, rowIndex)
             written == {rowIndex[q] + 1 : q \in DOMAIN rowIndex}
         IN groupedFloat64FuncLoop(vals, nulls, aligned, rowIndices, fn, i + 1,
              IF ~aligned
              THEN [slice |-> [ret.slice EXCEPT ![i] = out.val],
                    isNull |-> [ret.isNull EXCEPT ![i] = out.isNull]]
              ELSE [slice |-> [p \in DOMAIN ret.slice |->
                                 IF p \in written THEN out.val ELSE ret.slice[p]],
                    isNull |-> [p \in DOMAIN ret.isNull |->
                                 IF p \in written THEN out.isNull ELSE ret.isNull[p]]])

\* groupedFloat64Func: returns the container [slice, isNull, name]
groupedFloat64FuncCollapsing(vals, nulls, name, aligned, rowIndices, fn) ==
    LET retLength == Len(rowIndices)
        r == groupedFloat64FuncLoop(vals, nulls, FALSE, rowIndices, fn, 1,
                                    [slice |-> [p \in 1..retLength |-> F(0)],
                                     isNull |-> [p \in 1..retLength |-> FALSE]])
    IN [slice |-> r.slice, isNull |-> r.isNull, name |-> name]

groupedFloat64Func(vals, nulls, name, aligned, rowIndices, fn) ==
    LET retLength == IF aligned THEN Len(vals) ELSE Len(rowIndices)
        r == groupedFloat64FuncLoop(vals, nulls, aligned, rowIndices, fn, 1,
                                    [slice |-> [p \in 1..retLength |-> F(0)],
                                     isNull |-> [p \in 1..retLength |-> FALSE]])
    IN [slice |-> r.slice, isNull |-> r.isNull, name |-> name]

\* GroupedSeries.float64Func on the grouping g of the series [vals, nulls, labels, name]:
\* the Series [values, labels, sharedData].  In aligned mode the result is called
\* <series name>_<name> and carries the labels of the series
float64Func(g, series, name, fn) ==
    LET retName == IF g.aligned THEN series.name \o "_" \o name ELSE name
    IN [values |-> groupedFloat64Func(series.vals, series.nulls, retName, g.aligned,
                                      g.rowIndices, fn),
        labels |-> IF g.aligned THEN series.labels ELSE g.labels,
        sharedData |-> g.aligned]

\* GroupedSeries.Sum, Mean and Median
GroupedSum(g, series) == float64Func(g, series, "sum", "sum")
GroupedMean(g, series) == float64Func(g, series, "mean", "mean")
GroupedMedian(g, series) == float64Func(g, series, "median", "median")
\* GroupedSeries.Std
GroupedStd(g, series) == float64Func(g, series, "std", "std")

\* what a reduction leaves in gout: the values, the labels and the sharedData flag of
\* the returned Series
Returned(fn, series) ==
    <<[fn |-> fn, ret |-> series.values, labels |-> series.labels,
       sharedData |-> series.sharedData]>>

(***************************************************************************)
(* The grouping machine: a series of values with two label levels is       *)
(* grouped by a list of levels and then reduced.                           *)
(***************************************************************************)
\* a cell of the value column: a valid value, or a null row (whose value is not used)
Cells == {[val |-> v, null |-> FALSE] : v \in 1..MaxVal} \cup {[val |-> MaxVal, null |-> TRUE]}
KeyNames == {"foo", "bar"}
SecondLevel(n) == [i \in 1..n |-> IF i % 2 = 1 THEN "x" ELSE "y"]

GeneratedInputs ==
    UNION {{[vals |-> [i \in 1..n |-> c[i].val], nulls |-> [i \in 1..n |-> c[i].null],
             labels |-> <<k, SecondLevel(n)>>, name |-> "v"] :
               c \in [1..n -> Cells], k \in [1..n -> KeyNames]} : n \in 0..MaxGroupRows}

\* the documented examples
ExampleEven ==
    [vals |-> <<1, 2, 3, 4>>, nulls |-> <<FALSE, FALSE, FALSE, FALSE>>,
     labels |-> <<<<"foo", "foo", "bar", "bar">>, <<"x", "y", "x", "y">> >>, name |-> "v"]
ExampleOdd ==
    [vals |-> <<1, 2, 4, 5, 6, 8>>, nulls |-> <<FALSE, FALSE, FALSE, FALSE, FALSE, FALSE>>,
     labels |-> <<<<"foo", "foo", "foo", "bar", "bar", "bar">>,
                  <<"x", "y", "x", "y", "x", "y">> >>, name |-> "v"]

GroupInputs == GeneratedInputs \cup {ExampleEven, ExampleOdd}
KeyLevels == {<<0>>, <<1>>, <<0, 1>>, <<1, 0>>}

InitGroup ==
    /\ InitTable
    /\ gin \in GroupInputs
    /\ grp = <<>>
    /\ gout = <<>>

\* Series.GroupBy on the label levels `index`
GroupBy ==
    \E index \in KeyLevels, aligned \in BOOLEAN :
        /\ grp = <<>>
        /\ LET g == groupby(gin.labels, index)
           IN grp' = <<[index |-> index, orderedKeys |-> g.orderedKeys,
                        rowIndices |-> g.rowIndices, labels |-> g.labels,
                        aligned |-> aligned]>>
        /\ UNCHANGED <<gin, gout, tvars>>

Sum ==
    /\ grp # <<>>
    /\ gout' = Returned("sum", GroupedSum(grp[1], gin))
    /\ UNCHANGED <<gin, grp, tvars>>

Mean ==
    /\ grp # <<>>
    /\ gout' = Returned("mean", GroupedMean(grp[1], gin))
    /\ UNCHANGED <<gin, grp, tvars>>

Median ==
    /\ grp # <<>>
    /\ gout' = Returned("median", GroupedMedian(grp[1], gin))
    /\ UNCHANGED <<gin, grp, tvars>>

Std ==
    /\ grp # <<>>
    /\ gout' = Returned("std", GroupedStd(grp[1], gin))
    /\ UNCHANGED <<gin, grp, tvars>>

\* the other reducers of a grouped series: Count, Min, Max, First, Last, Earliest, Latest
\* and Reduce with a caller's function
OtherReducers == {"count", "min", "max", "first", "last", "earliest", "latest", "custom"}

Reduce ==
    /\ grp # <<>>
    /\ \E fn \in OtherReducers :
          gout' = Returned(fn, float64Func(grp[1], gin, fn, fn))
    /\ UNCHANGED <<gin, grp, tvars>>

NextGroup ==
    \/ GroupBy
    \/ Sum
    \/ Mean
    \/ Median
    \/ Std
    \/ Reduce

SpecGroup == InitGroup /\ [][NextGroup]_vars

(***************************************************************************)
(* Properties of the grouping machine.                                     *)
(***************************************************************************)
GroupRows == 0..(Len(gin.vals) - 1)

\* the composite key of row r under the key levels `index`
CompositeKey(index, r) ==
    IF Len(index) = 1 THEN gin.labels[index[1] + 1][r + 1]
    ELSE gin.labels[index[1] + 1][r + 1] \o "|" \o gin.labels[index[2] + 1][r + 1]

\* the rows with composite key k, and those of them that are not null
RowsWithKey(index, k) == {r \in GroupRows : CompositeKey(index, r) = k}
ValidRowsWithKey(index, k) == {r \in RowsWithKey(index, k) : ~gin.nulls[r + 1]}
FirstRowWithKey(index, k) ==
    CHOOSE r \in RowsWithKey(index, k) : \A q \in RowsWithKey(index, k) : r <= q

RECURSIVE SumOver(_)
\* the sum of the values at the rows P
SumOver(P) ==
    IF P = {} THEN 0
    ELSE LET r == CHOOSE r \in P : TRUE IN gin.vals[r + 1] + SumOver(P \ {r})

\* the k-th smallest of the values at the rows P, 1 <= k <= |P|
KthSmallest(P, k) ==
    CHOOSE v \in {gin.vals[r + 1] : r \in P} :
        /\ Cardinality({r \in P : gin.vals[r + 1] < v}) < k
        /\ k <= Cardinality({r \in P : gin.vals[r + 1] <= v})

\* the last reduction was fn in default (collapsing) mode
Reduced(fn) == gout # <<>> /\ gout[1].fn = fn /\ ~grp[1].aligned

\* C7: orderedKeys holds each distinct composite key once, in the order of the first row
\* each key occurs at, and rowIndices[i] holds exactly the rows whose key is orderedKeys[i].
ThmC7 ==
    grp # <<>> =>
        LET g == grp[1]
            n == Len(g.orderedKeys)
        IN /\ Len(g.rowIndices) = n
           /\ {g.orderedKeys[i] : i \in 1..n} = {CompositeKey(g.index, r) : r \in GroupRows}
           /\ \A i \in 1..n, j \in 1..n :
                 i < j => FirstRowWithKey(g.index, g.orderedKeys[i])
                             < FirstRowWithKey(g.index, g.orderedKeys[j])
           /\ \A i \in 1..n :
                 /\ Elems(g.rowIndices[i]) = RowsWithKey(g.index, g.orderedKeys[i])
                 /\ Len(g.rowIndices[i]) = Cardinality(RowsWithKey(g.index, g.orderedKeys[i]))

\* a grouping whose keys are not in sorted order and whose first group is not contiguous
WitC7 ==
    /\ grp # <<>>
    /\ grp[1].orderedKeys = <<"foo", "bar">>
    /\ grp[1].rowIndices = <<<<0, 2>>, <<1>>>>

\* C8: a grouped Sum holds, for group i of orderedKeys, the sum of the non-null values at
\* the rows of the group; [1,2,3,4] keyed [foo,foo,bar,bar] gives foo: 3, bar: 7.
ThmC8 ==
    Reduced("sum") =>
        LET g == grp[1]
            ret == gout[1].ret
            n == Len(g.orderedKeys)
        IN /\ Len(ret.slice) = n /\ Len(ret.isNull) = n
           /\ \A i \in 1..n :
                 LET P == ValidRowsWithKey(g.index, g.orderedKeys[i])
                 IN /\ ret.slice[i] = F(SumOver(P))
                    /\ ret.isNull[i] = (P = {})
           /\ (gin = ExampleEven /\ g.index = <<0>>)
                 => (g.orderedKeys = <<"foo", "bar">> /\ ret.slice = <<F(3), F(7)>>)

\* a Sum over two groups, one of which has a null row beside a valid one
WitC8 ==
    /\ Reduced("sum")
    /\ Len(grp[1].orderedKeys) = 2
    /\ \E i \in 1..2 :
          /\ ValidRowsWithKey(grp[1].index, grp[1].orderedKeys[i]) # {}
          /\ ValidRowsWithKey(grp[1].index, grp[1].orderedKeys[i])
                # RowsWithKey(grp[1].index, grp[1].orderedKeys[i])

\* C9: a grouped Mean holds, for group i of orderedKeys, the sum of the non-null values of
\* the group divided by their number; [1,2,3,4] keyed [foo,foo,bar,bar] gives 1.5 and 3.5.
ThmC9 ==
    Reduced("mean") =>
        LET g == grp[1]
            ret == gout[1].ret
            n == Len(g.orderedKeys)
        IN /\ Len(ret.slice) = n /\ Len(ret.isNull) = n
           /\ \A i \in 1..n :
                 LET P == ValidRowsWithKey(g.index, g.orderedKeys[i])
                 IN /\ ret.isNull[i] = (P = {})
                    /\ P # {} => /\ ret.slice[i].den > 0
                                 /\ ret.slice[i].num * Cardinality(P)
                                       = SumOver(P) * ret.slice[i].den
           /\ (gin = ExampleEven /\ g.index = <<0>>)
                 => (g.orderedKeys = <<"foo", "bar">>
                     /\ ret.slice = <<[num |-> 3, den |-> 2], [num |-> 7, den |-> 2]>>)

\* a Mean over a group that has a null row beside two valid ones of different value
WitC9 ==
    /\ Reduced("mean")
    /\ \E i \in 1..Len(grp[1].orderedKeys) :
          LET P == ValidRowsWithKey(grp[1].index, grp[1].orderedKeys[i])
          IN /\ Cardinality(P) = 2
             /\ P # RowsWithKey(grp[1].index, grp[1].orderedKeys[i])
             /\ gout[1].ret.slice[i].den = 2

\* C10: a grouped Median holds, for group i of orderedKeys, the middle one of the sorted
\* non-null values of the group when their number is odd, and the average of the two
\* middle ones when it is even; [1,2,4,5,6,8] keyed [foo,foo,foo,bar,bar,bar] gives 2 and
\* 6, [1,2,3,4] keyed [foo,foo,bar,bar] gives 1.5 and 3.5.
ThmC10 ==
    Reduced("median") =>
        LET g == grp[1]
            ret == gout[1].ret
            n == Len(g.orderedKeys)
        IN /\ Len(ret.slice) = n /\ Len(ret.isNull) = n
           /\ \A i \in 1..n :
                 LET P == ValidRowsWithKey(g.index, g.orderedKeys[i])
                     c == Cardinality(P)
                 IN /\ ret.isNull[i] = (P = {})
                    /\ (c % 2 = 1) => ret.slice[i] = F(KthSmallest(P, (c + 1) \div 2))
                    /\ (c # 0 /\ c % 2 = 0) =>
                          /\ ret.slice[i].den > 0
                          /\ ret.slice[i].num * 2
                                = (KthSmallest(P, c \div 2) + KthSmallest(P, c \div 2 + 1))
                                     * ret.slice[i].den
           /\ (gin = ExampleOdd /\ g.index = <<0>>)
                 => (g.orderedKeys = <<"foo", "bar">> /\ ret.slice = <<F(2), F(6)>>)
           /\ (gin = ExampleEven /\ g.index = <<0>>)
                 => (g.orderedKeys = <<"foo", "bar">>
                     /\ ret.slice = <<[num |-> 3, den |-> 2], [num |-> 7, den |-> 2]>>)

\* a Median over a group of two valid values that come in descending order
WitC10 ==
    /\ Reduced("median")
    /\ \E i \in 1..Len(grp[1].orderedKeys) :
          LET rows == grp[1].rowIndices[i]
          IN /\ Len(rows) = 2
             /\ ~gin.nulls[rows[1] + 1] /\ ~gin.nulls[rows[2] + 1]
             /\ gin.vals[rows[1] + 1] > gin.vals[rows[2] + 1] + 1

RECURSIVE SumSqDevOver(_, _, _)
\* the sum over the rows Q of (n * value - s)^2
SumSqDevOver(Q, n, s) ==
    IF Q = {} THEN 0
    ELSE LET r == CHOOSE r \in Q : TRUE
             d == n * gin.vals[r + 1] - s
         IN d * d + SumSqDevOver(Q \ {r}, n, s)

\* the float64 x is the non-negative square root of num / den, den > 0
IsRootOf(x, num, den) ==
    IF "radicand" \in DOMAIN x
    THEN x.radicand.den > 0 /\ x.radicand.num * den = num * x.radicand.den
    ELSE x.den > 0 /\ x.num >= 0 /\ x.num * x.num * den = num * x.den * x.den

\* C11: a grouped Std holds, for group i of orderedKeys, the population standard deviation
\* of the non-null values of the group: the root of the squared deviations from the group
\* mean summed and divided by their number N (not N - 1); [1,2,3,4] keyed
\* [foo,foo,bar,bar] gives 0.5 and 0.5.
ThmC11 ==
    Reduced("std") =>
        LET g == grp[1]
            ret == gout[1].ret
            n == Len(g.orderedKeys)
        IN /\ Len(ret.slice) = n /\ Len(ret.isNull) = n
           /\ \A i \in 1..n :
                 LET P == ValidRowsWithKey(g.index, g.orderedKeys[i])
                     c == Cardinality(P)
                 IN /\ ret.isNull[i] = (P = {})
                    /\ P # {} => IsRootOf(ret.slice[i], SumSqDevOver(P, c, SumOver(P)),
                                          c * c * c)
           /\ (gin = ExampleEven /\ g.index = <<0>>)
                 => (g.orderedKeys = <<"foo", "bar">>
                     /\ ret.slice = <<[num |-> 1, den |-> 2], [num |-> 1, den |-> 2]>>)

\* a Std over a group that has a null row beside two valid ones of different value
WitC11 ==
    /\ Reduced("std")
    /\ \E i \in 1..Len(grp[1].orderedKeys) :
          LET P == ValidRowsWithKey(grp[1].index, grp[1].orderedKeys[i])
          IN /\ Cardinality(P) = 2
             /\ P # RowsWithKey(grp[1].index, grp[1].orderedKeys[i])
             /\ \E r, q \in P : gin.vals[r + 1] # gin.vals[q + 1]

\* C22: for every reducer and every group, the result is flagged null if and only if no
\* row of the group is non-null; a group of null rows never yields a non-null zero.
ThmC22 ==
    (gout # <<>> /\ ~grp[1].aligned) =>
        \A i \in 1..Len(grp[1].orderedKeys) :
            gout[1].ret.isNull[i] = (ValidRowsWithKey(grp[1].index, grp[1].orderedKeys[i]) = {})

\* the caller's reducer was run over a group of null rows and over a group with a null
\* row beside a valid one
WitC22 ==
    /\ Reduced("custom")
    /\ \E i, j \in 1..Len(grp[1].orderedKeys) :
          /\ ValidRowsWithKey(grp[1].index, grp[1].orderedKeys[i]) = {}
          /\ gout[1].ret.isNull[i]
          /\ ValidRowsWithKey(grp[1].index, grp[1].orderedKeys[j]) # {}
          /\ ValidRowsWithKey(grp[1].index, grp[1].orderedKeys[j])
                # RowsWithKey(grp[1].index, grp[1].orderedKeys[j])
          /\ ~gout[1].ret.isNull[j]

(***************************************************************************)
(* Part III: the multi-key sorter.  A column is [name, slice, isNull] over *)
(* string cells; a Sorter is [Name, Descending, DType].                    *)
(***************************************************************************)
\* rows of a generated sorter input
MaxSortRows == 3

\* the strings the engine machines use, in byte order
StringOrder ==
    <<"", "0", "1", "10", "2", "2019-12-31", "2020-01-01", "3", "a", "b", "x", "y">>
StrRank(s) == CHOOSE i \in DOMAIN StringOrder : StringOrder[i] = s

\* strconv.ParseFloat and the timestamp parser over these strings: [val, err]
ParseFloat(s) ==
    CASE s = "0" -> [val |-> 0, err |-> FALSE]
      [] s = "1" -> [val |-> 1, err |-> FALSE]
      [] s = "2" -> [val |-> 2, err |-> FALSE]
      [] s = "3" -> [val |-> 3, err |-> FALSE]
      [] s = "10" -> [val |-> 10, err |-> FALSE]
      [] OTHER -> [val |-> 0, err |-> TRUE]
ParseTime(s) ==
    CASE s = "2019-12-31" -> [val |-> 1, err |-> FALSE]
      [] s = "2020-01-01" -> [val |-> 2, err |-> FALSE]
      [] OTHER -> [val |-> 0, err |-> TRUE]

\* a []string column as the constructor builds it
Column(name, cells) ==
    [name |-> name, slice |-> cells, isNull |-> setNullsFromInterface("string", cells)]

\* vc.float(), vc.str(), vc.dateTime(): the typed projection [slice, isNull] used for
\* comparing; a cell that is null or fails to parse is null and holds the zero value
coerce(dtype, vc) ==
    LET n == Len(vc.slice)
        parsed == [i \in 1..n |-> CASE dtype = "Float" -> ParseFloat(vc.slice[i])
                                    [] dtype = "DateTime" -> ParseTime(vc.slice[i])
                                    [] OTHER -> [val |-> StrRank(vc.slice[i]), err |-> FALSE]]
        null == [i \in 1..n |-> vc.isNull[i] \/ parsed[i].err]
    IN [slice |-> [i \in 1..n |-> IF null[i] /\ dtype # "String" THEN 0 ELSE parsed[i].val],
        isNull |-> null]

\* sort.Interface of the typed containers: Less compares the typed values, and
\* sort.Reverse exchanges its arguments
Less(descending, x, y) == IF descending THEN y.val < x.val ELSE x.val < y.val

RECURSIVE StableInsert(_, _, _)
\* x goes before the first item it is less than
StableInsert(descending, sorted, x) ==
    IF sorted = <<>> THEN <<x>>
    ELSE IF Less(descending, x, sorted[1]) THEN <<x>> \o sorted
    ELSE <<sorted[1]>> \o StableInsert(descending, Tail(sorted), x)

RECURSIVE Stable(_, _, _)
\* sort.Stable over items [val, isNull, index], which Swap moves together
Stable(descending, items, sorted) ==
    IF items = <<>> THEN sorted
    ELSE Stable(descending, Tail(items), StableInsert(descending, sorted, items[1]))

\* valueContainer.sort: the positions `index`, reordered
sortLeavingNullsInPlace(vc, dtype, descending, index) ==
    LET d == coerce(dtype, vc)
        items == [i \in 1..Len(d.slice) |->
                    [val |-> d.slice[i], isNull |-> d.isNull[i], index |-> index[i]]]
        sorted == Stable(descending, items, <<>>)
    IN [i \in 1..Len(sorted) |-> sorted[i].index]

\* valueContainer.sort without sort.Reverse
sortIgnoringDirection(vc, dtype, descending, index) ==
    LET d == coerce(dtype, vc)
        items == [i \in 1..Len(d.slice) |->
                    [val |-> d.slice[i], isNull |-> d.isNull[i], index |-> index[i]]]
        sorted == Stable(FALSE, items, <<>>)
        IsNullItem(x) == x.isNull
        NotNullItem(x) == ~x.isNull
        all == SelectSeq(sorted, NotNullItem) \o SelectSeq(sorted, IsNullItem)
    IN [i \in 1..Len(all) |-> all[i].index]

sort(vc, dtype, descending, index) ==
    LET d == coerce(dtype, vc)
        items == [i \in 1..Len(d.slice) |->
                    [val |-> d.slice[i], isNull |-> d.isNull[i], index |-> index[i]]]
        sorted == Stable(descending, items, <<>>)
        IsNullItem(x) == x.isNull
        NotNullItem(x) == ~x.isNull
        nulls == SelectSeq(sorted, IsNullItem)
        notNulls == SelectSeq(sorted, NotNullItem)
        all == notNulls \o nulls
    IN [i \in 1..Len(all) |-> all[i].index]

\* the rows of a column at the positions `index`
RowsAt(vc, index) ==
    [vc EXCEPT !.slice = [i \in 1..Len(index) |-> vc.slice[index[i] + 1]],
               !.isNull = [i \in 1..Len(index) |-> vc.isNull[index[i] + 1]]]

\* valueContainer.subsetRows on a copy of a column: the rows at the positions `index` in
\* [vc, panic].  The loop stops with an error at the first position beyond the values and
\* leaves the column as it was; it panics when it reads a null flag beyond the mask first.
subsetRowsOfCopy(vc, index) ==
    LET Beyond(p) == index[p] >= Len(vc.slice)
        Read(p) == \A q \in 1..(p - 1) : ~Beyond(q)
    IN IF \E p \in DOMAIN index : Read(p) /\ ~Beyond(p) /\ index[p] >= Len(vc.isNull)
       THEN [vc |-> vc, panic |-> TRUE]
       ELSE IF \E p \in DOMAIN index : Beyond(p) THEN [vc |-> vc, panic |-> FALSE]
       ELSE [vc |-> RowsAt(vc, index), panic |-> FALSE]

RECURSIVE sortContainersLoop(_, _, _, _)
\* the passes of sortContainers, from the last Sorter to the first; the error of
\* subsetRows is not looked at.  The typed projection reads a null flag for every value
\* and the sort a position of the index for every value: a read beyond either panics.
sortContainersLoop(containers, sorters, i, originalIndex) ==
    IF i < 1 THEN [index |-> originalIndex, err |-> FALSE]
    ELSE LET at == indexOfContainer(sorters[i].Name, containers)
         IN IF at = -1 THEN [index |-> <<>>, err |-> TRUE]
            ELSE LET vals == subsetRowsOfCopy(containers[at + 1], originalIndex)
                 IN IF \/ vals.panic
                       \/ Len(vals.vc.isNull) < Len(vals.vc.slice)
                       \/ Len(originalIndex) < Len(vals.vc.slice)
                    THEN [index |-> <<>>, err |-> TRUE, panic |-> TRUE]
                    ELSE sortContainersLoop(containers, sorters, i - 1,
                            sort(vals.vc, sorters[i].DType, sorters[i].Descending,
                                 originalIndex))

\* sortContainers: returns [index, err], with a field `panic` when it panics: the rows
\* are counted in containers[0], which a list of no containers does not have
sortContainers(containers, sorters) ==
    IF Len(containers) = 0 THEN [index |-> <<>>, err |-> TRUE, panic |-> TRUE]
    ELSE sortContainersLoop(containers, sorters, Len(sorters),
                            makeIntRange(0, Len(containers[1].slice)))

(***************************************************************************)
(* The sorter machine: a table of two columns is sorted by one or two      *)
(* Sorters.                                                                *)
(***************************************************************************)
SortCells == {"", "2", "10", "a", "2019-12-31", "2020-01-01"}
TieCells == {"", "1", "2"}
DTypes == {"Float", "String", "DateTime"}

SortInputs ==
    UNION {{<<Column("k", a), Column("t", b)>> :
               a \in [1..n -> SortCells], b \in [1..n -> TieCells]} : n \in 1..MaxSortRows}

Sorter(name, descending, dtype) == [Name |-> name, Descending |-> descending, DType |-> dtype]

SorterLists ==
    {<<Sorter("k", d, t)>> : d \in BOOLEAN, t \in DTypes}
    \cup {<<Sorter("k", d, t), Sorter("t", e, u)>> :
             d \in BOOLEAN, t \in DTypes, e \in BOOLEAN, u \in {"Float", "String"}}
    \cup {<<Sorter("missing", FALSE, "Float")>>}

InitSort ==
    /\ InitTable
    /\ gin \in SortInputs
    /\ grp = <<>>
    /\ gout = <<>>

\* DataFrameMutator.Sort: the new row order, and the rows rearranged by it
SortBy ==
    \E by \in SorterLists :
        /\ gout = <<>>
        /\ LET ret == sortContainers(gin, by)
           IN gout' = <<[by |-> by, ret |-> ret,
                         values |-> IF ret.err THEN <<>>
                                    ELSE [k \in DOMAIN gin |-> RowsAt(gin[k], ret.index)]]>>
        /\ UNCHANGED <<gin, grp, tvars>>

NextSort == SortBy

SpecSort == InitSort /\ [][NextSort]_vars

(***************************************************************************)
(* Properties of the sorter machine.                                       *)
(***************************************************************************)
SortRows == 0..(Len(gin[1].slice) - 1)

\* a sort was made and found its columns
Sorted == gout # <<>> /\ ~gout[1].ret.err

\* the column of the primary Sorter, and its projection to the comparison kind
PrimaryColumn == gin[indexOfContainer(gout[1].by[1].Name, gin) + 1]
PrimaryCoerced == coerce(gout[1].by[1].DType, PrimaryColumn)

IsPermutation(index, rows) ==
    /\ Len(index) = Cardinality(rows)
    /\ Elems(index) = rows

\* no row that is null under `mask` stands before a row that is not
NullsLast(index, mask) ==
    \A p \in DOMAIN index, q \in DOMAIN index :
        (p < q) => ~(mask[index[p] + 1] /\ ~mask[index[q] + 1])

\* C12 (as amended): a sort returns a permutation of the row positions in which every row
\* that is null in the sorted column once it is coerced to the comparison kind (null
\* before, or failing the coercion) comes after every row that is not, for ascending and
\* descending direction and every comparison kind.
ThmC12 ==
    Sorted => /\ IsPermutation(gout[1].ret.index, SortRows)
              /\ NullsLast(gout[1].ret.index, PrimaryCoerced.isNull)

\* a sort of a column whose first row is null and whose second row is valid moved row 0
\* off the top
WitC12 ==
    /\ Sorted
    /\ Len(PrimaryColumn.slice) >= 2
    /\ PrimaryColumn.isNull[1] /\ ~PrimaryCoerced.isNull[2]
    /\ gout[1].ret.index[1] # 0

\* C12 (as claimed): every row that is null in the sorted column comes after every row
\* that is non-null in it.
CexC12 ==
    Sorted => /\ IsPermutation(gout[1].ret.index, SortRows)
              /\ NullsLast(gout[1].ret.index, PrimaryColumn.isNull)

(***************************************************************************)
(* Part IV: the lookup aligner.  Containers are [name, slice, isNull] over *)
(* string cells; leftOn and rightOn are container positions (from 0).      *)
(***************************************************************************)
\* rows of a generated lookup table
MaxLookupRows == 2

\* the string slices of a list of containers
Slices(containers) == [j \in DOMAIN containers |-> containers[j].slice]

\* concatenateLabelsToStrings: one composite key per row; level j of the key is read
\* from labels[j]
concatenateLabelsToStrings(labels, index) ==
    LET labelStrings == [j \in 1..Len(index) |-> labels[j].slice]
    IN [i \in 1..Len(labelStrings[1]) |->
          Join([j \in 1..Len(index) |-> labelStrings[j][i]], "|")]

\* matchLabelPositions: labels2 is the map from key to first position
matchLabelPositions(labels1, labels2) ==
    [i \in 1..Len(labels1) |->
        IF labels1[i] \in DOMAIN labels2 THEN labels2[labels1[i]] ELSE -1]

\* reflect.Zero of the element type of a column
ZeroOf(kind) ==
    CASE kind = "float64" -> F(0)
      [] kind = "int" -> "0"
      [] OTHER -> ""

\* reflect.Zero of the element type of a []string
ZeroValue == ""

\* lookupWithAnchor: returns the Series [values, labels], or panics
lookupWithAnchor(name, labels1, leftOn, values2, labels2, rightOn) ==
    LET toLookup == concatenateLabelsToStrings(labels1, leftOn)
        lookupSource == labelsToMap(Slices(labels2), rightOn).firstIndex
        matches == matchLabelPositions(toLookup, lookupSource)
        n == Len(matches)
    IN IF \E i \in 1..n : matches[i] # -1 /\ i > Len(values2.isNull)
       THEN [panic |-> TRUE]
       ELSE [panic |-> FALSE,
             values |-> [name |-> name,
                         slice |-> [i \in 1..n |-> IF matches[i] # -1
                                                   THEN values2.slice[matches[i] + 1]
                                                   ELSE ZeroValue],
                         isNull |-> [i \in 1..n |-> IF matches[i] # -1
                                                    THEN values2.isNull[i]
                                                    ELSE TRUE]],
             labels |-> labels1]

\* concatenateLabelsToStrings reads within its slices: there is a first key level, and
\* every level read (labels[j], j below len(index)) has the rows of the first
ConcatenateInRange(labels, index) ==
    /\ Len(index) > 0
    /\ \A j \in 1..Len(index) : Len(labels[j].slice) >= Len(labels[1].slice)

\* labelsToMap reads within its slices: there is a first key level, and every level
\* read (labels[index[j]]) has the rows of the first
LabelsToMapInRange(labels, index) ==
    /\ Len(index) > 0
    /\ \A j \in 1..Len(index) :
          Len(labels[index[j] + 1].slice) >= Len(labels[index[1] + 1].slice)

\* the outcome of a lookup that panics
LookupPanic(name, colLevelNames) ==
    [panic |-> TRUE, err |-> TRUE, values |-> <<>>, labels |-> <<>>, name |-> name,
     colLevelNames |-> colLevelNames]

\* lookupDataFrameWithAnchor: returns the DataFrame [values, labels, name, colLevelNames];
\* it panics when a key is read beyond a key column, or a matched row beyond a column
\* that is looked up
lookupDataFrameWithAnchor(name, colLevelNames, mergedLabelsCols1, labels1, leftOn, values2, mergedLabelsCols2, rightOn, exclude) ==
    IF ~ConcatenateInRange(mergedLabelsCols1, leftOn)
          \/ ~LabelsToMapInRange(mergedLabelsCols2, rightOn)
    THEN LookupPanic(name, colLevelNames)
    ELSE
    LET toLookup == concatenateLabelsToStrings(mergedLabelsCols1, leftOn)
        lookupSource == labelsToMap(Slices(mergedLabelsCols2), rightOn).firstIndex
        matches == matchLabelPositions(toLookup, lookupSource)
        n == Len(matches)
        Kept(c) == c.name \notin Elems(exclude)
        Looked(c) == [name |-> c.name,
                      slice |-> [i \in 1..n |-> IF matches[i] # -1
                                                THEN c.slice[matches[i] + 1]
                                                ELSE IF "kind" \in DOMAIN c THEN ZeroOf(c.kind)
                                                ELSE ZeroValue],
                      isNull |-> [i \in 1..n |-> IF matches[i] # -1
                                                 THEN c.isNull[matches[i] + 1]
                                                 ELSE TRUE]]
        kept == SelectSeq(values2, Kept)
    IN IF \E k \in DOMAIN kept, i \in 1..n :
             /\ matches[i] # -1
             /\ \/ matches[i] >= Len(kept[k].slice)
                \/ matches[i] >= Len(kept[k].isNull)
       THEN LookupPanic(name, colLevelNames)
       ELSE [panic |-> FALSE,
             values |-> [k \in 1..Len(kept) |-> Looked(kept[k])],
             labels |-> labels1, name |-> name, colLevelNames |-> colLevelNames]

(***************************************************************************)
(* The lookup machine: a primary table (label foo, column bar) looks up a  *)
(* secondary table (label fred, columns k2 and qux).                       *)
(***************************************************************************)
LookupKeyCells == {"a", "b"}
LookupValueCells == {"1", "2", ""}

LookupInputs ==
    UNION {{[left |-> <<Column("foo", f), Column("bar", b)>>,
             right |-> <<Column("fred", g), Column("k2", k), Column("qux", q)>>] :
               f \in [1..n1 -> LookupKeyCells], b \in [1..n1 -> LookupKeyCells],
               g \in [1..n2 -> LookupKeyCells], k \in [1..n2 -> LookupKeyCells],
               q \in [1..n2 -> LookupValueCells]} :
           n1 \in 1..MaxLookupRows, n2 \in 1..MaxLookupRows}

\* the resolved key positions <<leftOn, rightOn>>
KeyPairs == {<< <<0>>, <<0>> >>, << <<1>>, <<1>> >>, << <<1>>, <<0>> >>,
             << <<0>>, <<1>> >>, << <<0, 1>>, <<0, 1>> >>}

InitLookup ==
    /\ InitTable
    /\ gin \in LookupInputs
    /\ grp = <<>>
    /\ gout = <<>>

\* Series.Lookup, how = "left": the primary Series has the label levels foo and bar, the
\* secondary the label levels fred and k2 and the values qux
LookupSeries ==
    \E on \in KeyPairs :
        /\ gout = <<>>
        /\ gout' = <<[variant |-> "Series", leftOn |-> on[1], rightOn |-> on[2],
                      ret |-> LET r == lookupWithAnchor("v", gin.left, on[1], gin.right[3],
                                                        SubSeq(gin.right, 1, 2), on[2])
                              IN IF r.panic THEN r
                                 ELSE [panic |-> FALSE, values |-> <<r.values>>,
                                       labels |-> r.labels]]>>
        /\ UNCHANGED <<gin, grp, tvars>>

\* DataFrame.LookupAdvanced, how = "left": the primary DataFrame has the label foo and the
\* column bar, the secondary the label fred and the columns k2 and qux
LookupDataFrame ==
    \E on \in KeyPairs :
        /\ gout = <<>>
        /\ gout' = <<[variant |-> "DataFrame", leftOn |-> on[1], rightOn |-> on[2],
                      ret |-> lookupDataFrameWithAnchor("", <<"*0">>, gin.left,
                                 SubSeq(gin.left, 1, 1), on[1], SubSeq(gin.right, 2, 3),
                                 gin.right, on[2],
                                 [j \in 1..Len(on[2]) |-> gin.right[on[2][j] + 1].name])]>>
        /\ UNCHANGED <<gin, grp, tvars>>

NextLookup ==
    \/ LookupSeries
    \/ LookupDataFrame

SpecLookup == InitLookup /\ [][NextLookup]_vars

(***************************************************************************)
(* Properties of the lookup machine.                                       *)
(***************************************************************************)
\* the composite key of row i (from 1) of `containers` over the key positions `on`
KeyOfRow(containers, on, i) ==
    Join([j \in 1..Len(on) |-> containers[on[j] + 1].slice[i]], "|")

PrimaryRows == 1..Len(gin.left[1].slice)
SecondaryRows == 1..Len(gin.right[1].slice)

\* the secondary rows whose composite key is that of primary row i
MatchesOf(i) ==
    {m \in SecondaryRows :
        KeyOfRow(gin.right, gout[1].rightOn, m) = KeyOfRow(gin.left, gout[1].leftOn, i)}

\* the secondary column a looked-up column comes from
SourceOf(c) == gin.right[indexOfContainer(c.name, gin.right) + 1]

LookedUp == gout # <<>>

\* C13: every primary row whose composite key does not occur in the secondary table is
\* flagged null, with the zero value, in every looked-up column of the result.
CexC13 ==
    (LookedUp /\ ~gout[1].ret.panic) =>
        \A i \in PrimaryRows :
              MatchesOf(i) = {} =>
                 \A k \in DOMAIN gout[1].ret.values :
                     /\ gout[1].ret.values[k].isNull[i]
                     /\ gout[1].ret.values[k].slice[i] = ZeroValue

\* the looked-up column named qux of the Series variant is that of the secondary values
SeriesSource == gin.right[3]

\* C14: every primary row whose composite key occurs in the secondary table gets, in each
\* looked-up column, the value and the null flag of the first secondary row with that key.
CexC14 ==
    LookedUp =>
        /\ ~gout[1].ret.panic
        /\ \A i \in PrimaryRows :
              MatchesOf(i) # {} =>
                 LET hit == CHOOSE m \in MatchesOf(i) : \A o \in MatchesOf(i) : m <= o
                 IN \A k \in DOMAIN gout[1].ret.values :
                       LET c == gout[1].ret.values[k]
                           src == IF gout[1].variant = "Series" THEN SeriesSource
                                  ELSE SourceOf(c)
                       IN /\ c.slice[i] = src.slice[hit]
                          /\ c.isNull[i] = src.isNull[hit]

(***************************************************************************)
(* Part V: name deduplication.  The names of the label levels followed by  *)
(* the columns are one list.                                               *)
(***************************************************************************)
\* containers of a generated name list
MaxNames == 3

\* fmt.Sprintf("%v_%v", name, n)
Suffixed(name, n) == name \o "_" \o ToString(n)

RECURSIVE deduplicateLoop(_, _, _)
\* one left-to-right pass; seen maps a name to the number of times it has appeared
deduplicateLoop(names, k, seen) ==
    IF k > Len(names) THEN names
    ELSE LET name == names[k]
         IN IF name \notin DOMAIN seen
            THEN deduplicateLoop(names, k + 1, (name :> 1) @@ seen)
            ELSE deduplicateLoop([names EXCEPT ![k] = Suffixed(name, seen[name])], k + 1,
                                 [seen EXCEPT ![name] = @ + 1])

\* deduplicateContainerNames: appends _n to a name that has already appeared n times
deduplicateContainerNames(names) == deduplicateLoop(names, 1, <<>>)

NameCells == {"a", "b", "a_1"}
NameInputs == UNION {[1..n -> NameCells] : n \in 1..MaxNames}

InitNames ==
    /\ InitTable
    /\ gin \in NameInputs
    /\ grp = <<>>
    /\ gout = <<>>

\* DataFrameMutator.DeduplicateNames on the table whose names stand in gout (in gin at
\* first); grp counts the calls
DeduplicateNames ==
    /\ Len(grp) < 2
    /\ gout' = <<deduplicateContainerNames(IF gout = <<>> THEN gin ELSE gout[1])>>
    /\ grp' = Append(grp, IF gout = <<>> THEN gin ELSE gout[1])
    /\ UNCHANGED <<gin, tvars>>

NextNames == DeduplicateNames

SpecNames == InitNames /\ [][NextNames]_vars

\* C15: DeduplicateNames applied twice yields the same names as applied once.
CexC15 == Len(grp) = 2 => gout[1] = grp[2]

(***************************************************************************)
(* Part VI: the null filters Valid and DropNull.  A table is               *)
(* [labels, values, err] over columns [name, slice, isNull].               *)
(***************************************************************************)
\* rows of a generated table of the null filters
MaxValidRows == 3

\* findColWithName over columns: position (from 0) of the first column whose name
\* matches without regard to case, -1 for the error
findColWithNameIn(name, cols) ==
    IF \E j \in DOMAIN cols : ToLower(cols[j].name) = ToLower(name)
    THEN (CHOOSE j \in DOMAIN cols :
            /\ ToLower(cols[j].name) = ToLower(name)
            /\ \A k \in 1..(j - 1) : ToLower(cols[k].name) # ToLower(name)) - 1
    ELSE -1

RECURSIVE valid(_, _)
\* valueContainer.valid: the positions (from 0) of the non-null rows, from row i on
valid(vc, i) ==
    IF i > Len(vc.isNull) THEN <<>>
    ELSE (IF ~vc.isNull[i] THEN <<i - 1>> ELSE <<>>) \o valid(vc, i + 1)

RECURSIVE Ints(_)
\* sort.Ints of a set of keys
Ints(keys) ==
    IF keys = {} THEN <<>>
    ELSE LET least == CHOOSE k \in keys : \A o \in keys : k <= o
         IN <<least>> \o Ints(keys \ {least})

\* intersection: the positions found in every slice, ascending
intersection(slices) ==
    LET keys == UNION {Elems(slices[j]) : j \in DOMAIN slices}
        seen(k) == Cardinality({<<j, p>> \in UNION {{j} \X DOMAIN slices[j] : j \in DOMAIN slices} :
                                    slices[j][p] = k})
        InAll(k) == seen(k) = Len(slices)
    IN SelectSeq(Ints(keys), InAll)

\* the table with an error and nothing else
TableWithError == [labels |-> <<>>, values |-> <<>>, err |-> TRUE]

\* the outcome of a call that panics
TablePanic == [labels |-> <<>>, values |-> <<>>, err |-> TRUE, panic |-> TRUE]

\* DataFrame.Subset over columns: an index value past the rows of a value column is the
\* error
SubsetTable(t, index) ==
    IF \E k \in DOMAIN t.values, p \in DOMAIN index : index[p] >= Len(t.values[k].slice)
    THEN TableWithError
    ELSE [labels |-> [j \in DOMAIN t.labels |-> RowsAt(t.labels[j], index)],
          values |-> [k \in DOMAIN t.values |-> RowsAt(t.values[k], index)],
          err |-> FALSE]

RECURSIVE NamedPositions(_, _, _, _)
\* the loop over `subset`: the positions of the named columns, or <<-1>> for the error;
\* byIndexOfContainer tells which of the two finders is called
NamedPositions(byIndexOfContainer, subset, cols, p) ==
    IF p > Len(subset) THEN <<>>
    ELSE LET i == IF byIndexOfContainer THEN indexOfContainer(subset[p], cols)
                  ELSE findColWithNameIn(subset[p], cols)
             rest == NamedPositions(byIndexOfContainer, subset, cols, p + 1)
         IN IF i = -1 \/ rest = <<-1>> THEN <<-1>> ELSE <<i>> \o rest

\* the body Valid and DropNull share: subIndexes[k] is read from values[k].  DropNull
\* (byIndexOfContainer) hands df.Len() to intersection, which reads values[0]
ValidRows(t, byIndexOfContainer, subset) ==
    LET index == IF Len(subset) = 0 THEN makeIntRange(0, Len(t.values))
                 ELSE NamedPositions(byIndexOfContainer, subset, t.values, 1)
    IN IF index = <<-1>> THEN TableWithError
       ELSE IF byIndexOfContainer /\ t.values = <<>> THEN TablePanic
       ELSE LET subIndexes == [k \in 1..Len(index) |-> valid(t.values[k], 1)]
            IN SubsetTable(t, intersection(subIndexes))

\* DataFrame.Valid
Valid(t, subset) == ValidRows(t, FALSE, subset)

\* DataFrameMutator.DropNull
DropNull(t, subset) == ValidRows(t, TRUE, subset)

(***************************************************************************)
(* The null-filter machine: a table with the columns "0" and "1" and the   *)
(* label level "*0" is filtered once.                                      *)
(***************************************************************************)
ValidCells == {"a", "", " "}

\* the tables with two columns, and the tables left without a value column
ValidInputs ==
    UNION {{[labels |-> <<Column("*0", [i \in 1..n |-> ToString(i - 1)])>>,
             values |-> <<Column("0", a), Column("1", b)>>, err |-> FALSE] :
               a \in [1..n -> ValidCells], b \in [1..n -> ValidCells]}
           \cup {[labels |-> <<Column("*0", [i \in 1..n |-> ToString(i - 1)])>>,
                  values |-> <<>>, err |-> FALSE]} :
           n \in 1..MaxValidRows}

SubsetNames == {<<>>, <<"0">>, <<"1">>, <<"0", "1">>, <<"1", "0">>, <<"x">>}

InitValid ==
    /\ InitTable
    /\ gin \in ValidInputs
    /\ grp = <<>>
    /\ gout = <<>>

DoValid ==
    \E subset \in SubsetNames :
        /\ gout = <<>>
        /\ gout' = <<[op |-> "Valid", subset |-> subset, ret |-> Valid(gin, subset)]>>
        /\ UNCHANGED <<gin, grp, tvars>>

DoDropNull ==
    \E subset \in SubsetNames :
        /\ gout = <<>>
        /\ gout' = <<[op |-> "DropNull", subset |-> subset, ret |-> DropNull(gin, subset)]>>
        /\ UNCHANGED <<gin, grp, tvars>>

NextValid ==
    \/ DoValid
    \/ DoDropNull

SpecValid == InitValid /\ [][NextValid]_vars

(***************************************************************************)
(* Properties of the null-filter machine.                                  *)
(***************************************************************************)
\* the columns a filter is asked to look at
NamedColumns(subset) ==
    IF subset = <<>> THEN gin.values
    ELSE [p \in DOMAIN subset |-> gin.values[indexOfContainer(subset[p], gin.values) + 1]]

\* the rows (from 0) that are non-null in every named column, in their original order
RowsToKeep(subset) ==
    LET Keep(i) == \A p \in DOMAIN NamedColumns(subset) : ~NamedColumns(subset)[p].isNull[i + 1]
    IN SelectSeq(makeIntRange(0, Len(gin.values[1].slice)), Keep)

\* C18: Valid(subset...) and DropNull(subset...) keep exactly the rows, in their original
\* order, that are non-null in every column named in subset (in every column when subset
\* is empty).
CexC18 ==
    (gout # <<>> /\ gin.values # <<>> /\ \A p \in DOMAIN gout[1].subset : gout[1].subset[p] \in {"0", "1"}) =>
        gout[1].ret = SubsetTable(gin, RowsToKeep(gout[1].subset))

(***************************************************************************)
(* Part VII: the reshape engine.  A table is [labels, values,              *)
(* colLevelNames, name, err]; a column is [kind, name, slice, isNull],     *)
(* where a float64 column holds fractions.                                 *)
(***************************************************************************)
\* rows of a generated table of the reshape engine
MaxPivotRows == 3

TypedColumn(name, cells) ==
    [kind |-> "string", name |-> name, slice |-> cells,
     isNull |-> setNullsFromInterface("string", cells)]

MkTable(labels, values, colLevelNames, name) ==
    [labels |-> labels, values |-> values, colLevelNames |-> colLevelNames, name |-> name,
     err |-> FALSE]

\* dataFrameWithError, as a table
ErrorTable == [labels |-> <<>>, values |-> <<>>, colLevelNames |-> <<>>, name |-> "",
               err |-> TRUE]

\* the outcome of a call that panics: labels[0] of a table without label levels
PanicTable == [err |-> TRUE, panic |-> TRUE]

\* the names of one column level and the cell strings that become such names
LevelAtoms == {"l", "c", "v", "a", "b", "x", "y", "1", "2", "", "*0"}

\* joinLevelsIntoLabel and splitLabelIntoLevels with the level separator "|"
joinLevelsIntoLabel(levels) == Join(levels, "|")
splitLabelIntoLevels(label) ==
    CHOOSE levels \in SeqsUpTo(LevelAtoms, 2) : levels # <<>> /\ Join(levels, "|") = label

\* reduceContainersForPromote: the residual labels with duplicate rows dropped, and the
\* map from an original row (from 0) to its row in them
reduceContainersForPromote(containers) ==
    LET m == labelsToMap(Slices(containers), makeIntRange(0, Len(containers)))
        n == Len(m.orderedKeys)
    IN [labels |-> [j \in DOMAIN containers |->
                       RowsAt(containers[j], [i \in 1..n |-> m.firstIndex[m.orderedKeys[i]]])],
        oldToNewRowMapping |-> m.originalIndexToUniqueIndex]

\* PromoteToColLevel reads within its slices: the residual labels have the rows of the
\* first of them and a null flag for every row that is kept, every column that is not
\* promoted has a value and a null flag for every row of the promoted container, and
\* the new columns have a row to write to
PromoteReadsInRange(values, valsToPromote, residualLabels, colIndex) ==
    /\ \A j \in DOMAIN residualLabels :
          Len(residualLabels[j].slice) >= Len(residualLabels[1].slice)
    /\ \A j \in DOMAIN residualLabels :
          \A i \in 1..Len(residualLabels[1].slice) :
             (\A o \in 1..(i - 1) :
                 \E q \in DOMAIN residualLabels :
                     residualLabels[q].slice[o] # residualLabels[q].slice[i])
                => i <= Len(residualLabels[j].isNull)
    /\ \A k \in DOMAIN values :
          (k - 1 # colIndex) => /\ Len(valsToPromote.slice) <= Len(values[k].slice)
                                /\ Len(valsToPromote.slice) <= Len(values[k].isNull)
    /\ (Len(valsToPromote.slice) > 0 /\ \E k \in DOMAIN values : k - 1 # colIndex)
          => Len(residualLabels[1].slice) > 0

RECURSIVE ScatterRowsAsValid(_, _, _, _, _)
\* the same loop, marking every written cell as not null
ScatterRowsAsValid(original, rowIndex, oldToNewRowMapping, p, col) ==
    IF p > Len(rowIndex) THEN col
    ELSE LET i == rowIndex[p]
             \* a Go map of integers yields 0 for a key it does not hold
             newRowIndex == IF i \in DOMAIN oldToNewRowMapping THEN oldToNewRowMapping[i]
                            ELSE 0
         IN ScatterRowsAsValid(original, rowIndex, oldToNewRowMapping, p + 1,
                [col EXCEPT !.isNull[newRowIndex + 1] = FALSE,
                            !.slice[newRowIndex + 1] = original.slice[i + 1]])

RECURSIVE ScatterRows(_, _, _, _, _)
\* the innermost loop of PromoteToColLevel: the rows rowIndex[p..] of `original` are
\* written to their new rows of the new column `col`
ScatterRows(original, rowIndex, oldToNewRowMapping, p, col) ==
    IF p > Len(rowIndex) THEN col
    ELSE LET i == rowIndex[p]
             \* a Go map of integers yields 0 for a key it does not hold
             newRowIndex == IF i \in DOMAIN oldToNewRowMapping THEN oldToNewRowMapping[i]
                            ELSE 0
         IN ScatterRows(original, rowIndex, oldToNewRowMapping, p + 1,
                [col EXCEPT !.isNull[newRowIndex + 1] = original.isNull[i + 1],
                            !.slice[newRowIndex + 1] = original.slice[i + 1]])

\* DataFrame.PromoteToColLevel
PromoteToColLevelOfOnlyColumn(t, name) ==
    LET mergedLabelsAndCols == t.labels \o t.values
        index == indexOfContainer(name, mergedLabelsAndCols)
        isCol == index >= Len(t.labels)
    IN IF index = -1 THEN ErrorTable
       ELSE IF ~isCol /\ Len(t.labels) <= 1 THEN ErrorTable
       ELSE IF Len(t.labels) = 0 THEN PanicTable
       ELSE
        LET residualLabelIndex == IF isCol THEN makeIntRange(0, Len(t.labels))
                                  ELSE excludeFromIndex(Len(t.labels), index)
            colIndex == index - Len(t.labels)
            valsToPromote == mergedLabelsAndCols[index + 1]
            reduced == reduceContainers(<<valsToPromote.slice>>)
            rowIndices == reduced.rowIndices
            uniqueValuesToPromote == reduced.orderedKeys
            u == Len(uniqueValuesToPromote)
            residualLabels == [j \in 1..Len(residualLabelIndex) |->
                                  t.labels[residualLabelIndex[j] + 1]]
            promoted == reduceContainersForPromote(residualLabels)
            numNewRows == Len(promoted.labels[1].slice)
            \* the new column at position newColumnIndex = k * u + m (from 0)
            NewCol(newColumnIndex) ==
                LET k == newColumnIndex \div u
                    m == newColumnIndex % u
                    original == t.values[k + 1]
                IN ScatterRows(original, rowIndices[m + 1], promoted.oldToNewRowMapping, 1,
                       [kind |-> original.kind,
                        name |-> joinLevelsIntoLabel(<<uniqueValuesToPromote[m + 1],
                                                       original.name>>),
                        slice |-> [i \in 1..numNewRows |-> ZeroOf(original.kind)],
                        isNull |-> [i \in 1..numNewRows |-> TRUE]])
            Kept(newColumnIndex) == (newColumnIndex \div u) # colIndex
            keptIndex == SelectSeq(makeIntRange(0, u * Len(t.values)), Kept)
        IN IF ~PromoteReadsInRange(t.values, valsToPromote, residualLabels, colIndex)
           THEN PanicTable
           ELSE
           [labels |-> promoted.labels,
            values |-> [q \in 1..Len(keptIndex) |-> NewCol(keptIndex[q])],
            colLevelNames |-> <<valsToPromote.name>> \o t.colLevelNames,
            name |-> t.name, err |-> FALSE]

PromoteToColLevel(t, name) ==
    LET mergedLabelsAndCols == t.labels \o t.values
        index == indexOfContainer(name, mergedLabelsAndCols)
        isCol == index >= Len(t.labels)
    IN IF index = -1 THEN ErrorTable
       ELSE IF isCol /\ Len(t.values) <= 1 THEN ErrorTable
       ELSE IF ~isCol /\ Len(t.labels) <= 1 THEN ErrorTable
       ELSE IF Len(t.labels) = 0 THEN PanicTable
       ELSE
        LET residualLabelIndex == IF isCol THEN makeIntRange(0, Len(t.labels))
                                  ELSE excludeFromIndex(Len(t.labels), index)
            colIndex == index - Len(t.labels)
            valsToPromote == mergedLabelsAndCols[index + 1]
            reduced == reduceContainers(<<valsToPromote.slice>>)
            rowIndices == reduced.rowIndices
            uniqueValuesToPromote == reduced.orderedKeys
            u == Len(uniqueValuesToPromote)
            residualLabels == [j \in 1..Len(residualLabelIndex) |->
                                  t.labels[residualLabelIndex[j] + 1]]
            promoted == reduceContainersForPromote(residualLabels)
            numNewRows == Len(promoted.labels[1].slice)
            \* the new column at position newColumnIndex = k * u + m (from 0)
            NewCol(newColumnIndex) ==
                LET k == newColumnIndex \div u
                    m == newColumnIndex % u
                    original == t.values[k + 1]
                IN ScatterRows(original, rowIndices[m + 1], promoted.oldToNewRowMapping, 1,
                       [kind |-> original.kind,
                        name |-> joinLevelsIntoLabel(<<uniqueValuesToPromote[m + 1],
                                                       original.name>>),
                        slice |-> [i \in 1..numNewRows |-> ZeroOf(original.kind)],
                        isNull |-> [i \in 1..numNewRows |-> TRUE]])
            Kept(newColumnIndex) == (newColumnIndex \div u) # colIndex
            keptIndex == SelectSeq(makeIntRange(0, u * Len(t.values)), Kept)
        IN IF ~PromoteReadsInRange(t.values, valsToPromote, residualLabels, colIndex)
           THEN PanicTable
           ELSE
           [labels |-> promoted.labels,
            values |-> [q \in 1..Len(keptIndex) |-> NewCol(keptIndex[q])],
            colLevelNames |-> <<valsToPromote.name>> \o t.colLevelNames,
            name |-> t.name, err |-> FALSE]

\* vc.float64(): the values as float64, zero where the cell is no number
float64Slice(vc) == [i \in DOMAIN vc.slice |-> ParseFloat(vc.slice[i]).val]

\* GroupedDataFrame.float64Func on the grouping g of the table t: result column k is
\* reduced from t.values[k]
groupedDataFrameFloat64Func(g, t, name, cols, fn) ==
    LET names == IF Len(cols) = 0 THEN [k \in DOMAIN t.values |-> t.values[k].name] ELSE cols
    IN [labels |-> g.labels,
        values |-> [k \in DOMAIN names |->
                      LET r == groupedFloat64Func(float64Slice(t.values[k]), t.values[k].isNull,
                                                  names[k], FALSE, g.rowIndices, fn)
                      IN [kind |-> "float64", name |-> r.name, slice |-> r.slice,
                          isNull |-> r.isNull]],
        colLevelNames |-> <<"*0">>, name |-> name, err |-> FALSE]

\* DataFrame.groupby: the grouping of the rows by the containers at `index`, whose
\* labels keep the names of those containers
groupbyTable(t, index) ==
    LET mergedLabelsAndCols == t.labels \o t.values
        g == groupby(Slices(mergedLabelsAndCols), index)
    IN [orderedKeys |-> g.orderedKeys, rowIndices |-> g.rowIndices,
        labels |-> [p \in DOMAIN index |->
                      TypedColumn(mergedLabelsAndCols[index[p] + 1].name, g.labels[p])]]

\* dropColLevel
dropColLevel(t, level) ==
    LET Without(seq) == SubSeq(seq, 1, level) \o SubSeq(seq, level + 2, Len(seq))
    IN [t EXCEPT !.colLevelNames = Without(@),
                 !.values = [k \in DOMAIN @ |->
                               [@[k] EXCEPT !.name = joinLevelsIntoLabel(
                                                        Without(splitLabelIntoLevels(@)))]]]

\* the aggregation functions of PivotTable
AggFuncs == {"sum", "mean", "median", "std", "count", "min", "max"}

\* DataFrame.PivotTable
PivotTable(t, labels, columns, values, aggFunc) ==
    LET mergedLabelsAndCols == t.labels \o t.values
        labelIndex == indexOfContainer(labels, mergedLabelsAndCols)
        colIndex == indexOfContainer(columns, mergedLabelsAndCols)
    IN IF labelIndex = -1 \/ colIndex = -1
          \/ indexOfContainer(values, mergedLabelsAndCols) = -1 THEN ErrorTable
       ELSE IF aggFunc \notin AggFuncs THEN ErrorTable
       ELSE LET grouper == groupbyTable(t, <<labelIndex, colIndex>>)
                ret == groupedDataFrameFloat64Func(grouper, t, aggFunc, <<values>>, aggFunc)
            IN dropColLevel(PromoteToColLevel(ret, columns), 1)

\* ---- the reshape machine: one table, pivoted or promoted once

PivotLabels == {"a", "b"}
PivotColumns == {"x", "y"}
PivotCells == {"1", "2", ""}
PivotRow == [l : PivotLabels, c : PivotColumns, v : PivotCells]

\* the layouts of the generated tables: the label levels and the value columns
Layouts == {[labels |-> <<>>, values |-> <<"v", "l", "c">>],
            [labels |-> <<>>, values |-> <<"l", "c", "v">>],
            [labels |-> <<>>, values |-> <<"l", "v", "c">>],
            [labels |-> <<"l", "c">>, values |-> <<"v">>]}

\* the table of the rows `rows` in the layout `lay`; without label levels it gets the
\* default level *0 = 0, 1, ...
LaidOut(lay, rows) ==
    LET CellColumn(n) == TypedColumn(n, [i \in DOMAIN rows |-> rows[i][n]])
        default == TypedColumn("*0", [i \in DOMAIN rows |-> ToString(i - 1)])
    IN MkTable(IF lay.labels = <<>> THEN <<default>>
               ELSE [j \in DOMAIN lay.labels |-> CellColumn(lay.labels[j])],
               [k \in DOMAIN lay.values |-> CellColumn(lay.values[k])], <<"*0">>, "")

ReshapeInputs ==
    {LaidOut(lay, rows) : lay \in Layouts, rows \in SeqsUpTo(PivotRow, MaxPivotRows) \ {<<>>}}

InitReshape ==
    /\ InitTable
    /\ gin \in ReshapeInputs
    /\ grp = <<>>
    /\ gout = <<>>

\* df.PivotTable(labels, columns, values, aggFunc)
Pivot ==
    /\ gout = <<>>
    /\ \E a \in {<<"l", "c", "v">>, <<"c", "l", "v">>, <<"l", "c", "zz">>},
          aggFunc \in {"sum", "mean", "count", "bogus"} :
          gout' = <<[op |-> "PivotTable", args |-> Append(a, aggFunc),
                     ret |-> PivotTable(gin, a[1], a[2], a[3], aggFunc)]>>
    /\ UNCHANGED <<dfs, vcs, strs, bools, panicked, lastOp, copies, steps, gin, grp>>

\* df.PromoteToColLevel(name)
Promote ==
    /\ gout = <<>>
    /\ \E name \in {"l", "c", "*0", "zz"} :
          gout' = <<[op |-> "PromoteToColLevel", args |-> <<name>>,
                     ret |-> PromoteToColLevel(gin, name)]>>
    /\ UNCHANGED <<dfs, vcs, strs, bools, panicked, lastOp, copies, steps, gin, grp>>

NextReshape ==
    \/ Pivot
    \/ Promote

SpecReshape == InitReshape /\ [][NextReshape]_vars

\* ---- claims about the reshape machine

RECURSIVE FirstOccurrences(_)
\* the distinct elements of a sequence, in the order of their first occurrence
FirstOccurrences(seq) ==
    IF seq = <<>> THEN <<>>
    ELSE LET rest == FirstOccurrences(SubSeq(seq, 1, Len(seq) - 1))
             x == seq[Len(seq)]
         IN IF \E p \in DOMAIN rest : rest[p] = x THEN rest ELSE Append(rest, x)

\* the container of the table gin called `name`
ContainerOf(name) ==
    LET merged == gin.labels \o gin.values
    IN merged[indexOfContainer(name, merged) + 1]

\* the table a pivot of gin by (labels, columns, values, aggFunc) has to be, cell by
\* cell: [rows, cols, cell], where cell[p][q] = [val, isNull]
ExpectedPivot(labels, columns, values, aggFunc) ==
    LET L == ContainerOf(labels)
        C == ContainerOf(columns)
        V == ContainerOf(values)
        rows == FirstOccurrences(L.slice)
        cols == FirstOccurrences(C.slice)
        Here(p, q) == LET At(i) == L.slice[i + 1] = rows[p] /\ C.slice[i + 1] = cols[q]
                      IN SelectSeq(makeIntRange(0, Len(L.slice)), At)
    IN [rows |-> rows, cols |-> cols,
        cell |-> [p \in DOMAIN rows |-> [q \in DOMAIN cols |->
                    IF Here(p, q) = <<>> THEN [val |-> F(0), isNull |-> TRUE]
                    ELSE reduceWith(aggFunc, float64Slice(V), V.isNull, Here(p, q))]]]

\* a PivotTable call has returned a table
PivotReturned ==
    /\ gout # <<>>
    /\ gout[1].op = "PivotTable"
    /\ ~gout[1].ret.err

\* the returned pivot table is the expected one
PivotAsExpected ==
    LET a == gout[1].args
        e == ExpectedPivot(a[1], a[2], a[3], a[4])
        t == gout[1].ret
    IN /\ Len(t.labels) = 1
       /\ t.labels[1].slice = e.rows
       /\ [q \in DOMAIN t.values |-> t.values[q].name] = e.cols
       /\ \A p \in DOMAIN e.rows, q \in DOMAIN e.cols :
             /\ Len(t.values[q].slice) = Len(e.rows)
             /\ t.values[q].isNull[p] = e.cell[p][q].isNull
             /\ ~e.cell[p][q].isNull => t.values[q].slice[p] = e.cell[p][q].val

\* C19: a pivot table has one row per distinct `labels` value and one column per distinct
\* `columns` value, in first-occurrence order, and its cell (l, c) is aggFunc of the
\* column `values` over the input rows with labels = l and columns = c, null when there
\* is none, whichever position the `values` column has among the columns.
CexC19 == PivotReturned => PivotAsExpected

(***************************************************************************)
(* Part VIII: the table machine, completed with the sort and reshape calls *)
(* on DataFrames of the object graph.                                      *)
(***************************************************************************)
\* the DataFrame d as a table of the engines
TableOf(h, d) ==
    LET Container(c) == [kind |-> h.vcs[c].kind, name |-> h.vcs[c].name,
                   slice |-> ReadStr(h, h.vcs[c].slice), isNull |-> ReadBool(h, h.vcs[c].isNull)]
    IN [labels |-> [j \in DOMAIN h.dfs[d].labels |-> Container(h.dfs[d].labels[j])],
        values |-> [k \in DOMAIN h.dfs[d].values |-> Container(h.dfs[d].values[k])],
        colLevelNames |-> h.dfs[d].colLevelNames, name |-> h.dfs[d].name,
        err |-> h.dfs[d].err # Nil]

RECURSIVE NewVCs(_, _, _, _)
\* new containers for the columns cols[i..]: returns [h, ids]
NewVCs(h, cols, i, acc) ==
    IF i > Len(cols) THEN [h |-> h, ids |-> acc]
    ELSE LET r == NewVC(h, cols[i].kind, cols[i].slice, cols[i].isNull, cols[i].name)
         IN NewVCs(r.h, cols, i + 1, Append(acc, r.id))

\* DataFrame.PromoteToColLevel on the object graph: the result is built of new containers
DataFramePromoteToColLevel(h, d, name) ==
    LET t == PromoteToColLevel(TableOf(h, d), name)
    IN IF "panic" \in DOMAIN t THEN [h |-> Panic(h), id |-> 0]
       ELSE IF t.err THEN NewDF(h, dataFrameWithError("PromoteToColLevel"))
       ELSE LET l == NewVCs(h, t.labels, 1, <<>>)
                v == NewVCs(l.h, t.values, 1, <<>>)
            IN NewDF(v.h, MkDF(l.ids, v.ids, t.name, Nil, t.colLevelNames))

\* DataFrameMutator.Sort
MutatorSort(h, d, by) ==
    IF Len(by) = 0 THEN resetWithError(h, d, "Sort")
    ELSE LET t == TableOf(h, d)
             r == sortContainers(t.labels \o t.values, by)
         IN IF "panic" \in DOMAIN r THEN Panic(h)
            ELSE IF r.err THEN resetWithError(h, d, "Sort")
            ELSE MutatorSubset(h, d, r.index)

\* DataFrame.Sort: the copy it makes is dropped, the receiver is sorted and returned
DataFrameSort(h, d, by) == [h |-> MutatorSort(h, d, by), id |-> d]

SortArgs == {<<>>, <<Sorter("0", FALSE, "String")>>, <<Sorter("0", TRUE, "String")>>,
             <<Sorter("x", FALSE, "Float")>>}
PromoteArgs == {"0", "*0", "x"}

\* df.Sort(by...)
DoSort ==
    \E d \in DOMAIN dfs, by \in SortArgs :
        /\ Call("Sort", FALSE, d, [by |-> by], DataFrameSort(Cur, d, by))
        /\ UNCHANGED <<copies, gvars>>

\* df.PromoteToColLevel(name)
DoPromoteToColLevel ==
    \E d \in DOMAIN dfs, name \in PromoteArgs :
        /\ Room
        /\ Call("PromoteToColLevel", FALSE, d, [name |-> name],
                DataFramePromoteToColLevel(Cur, d, name))
        /\ UNCHANGED <<copies, gvars>>


\* ---- claims about the sort and reshape calls

\* C17: the sort and reshape operations never mutate their inputs: after the call every
\* value, null flag, container name, row order and column level name of every DataFrame
\* that existed before it is as it was.
CexC17 ==
    (lastOp.op \in {"Sort", "PromoteToColLevel"} /\ ~panicked)
        => \A d \in DOMAIN lastOp.pre : View(Cur, d) = lastOp.pre[d]

\* the error cases of PromoteToColLevel, on the receiver as it was before the call
PromoteRefused ==
    LET name == lastOp.args.name
        IsNamed(c) == c.name = name
        labelHit == \E j \in DOMAIN PreRecv.labels : IsNamed(PreRecv.labels[j])
        valueHit == \E k \in DOMAIN PreRecv.values : IsNamed(PreRecv.values[k])
    IN \/ ~labelHit /\ ~valueHit
       \/ ~labelHit /\ valueHit /\ Len(PreRecv.values) = 1
       \/ labelHit /\ Len(PreRecv.labels) = 1

\* C20: PromoteToColLevel(name) returns an error DataFrame and leaves its receiver as it
\* was when name matches no label or column, when it names a column of a table with one
\* value column, or when it names a label level of a table with one label level.
ThmC20 ==
    (lastOp.op = "PromoteToColLevel" /\ PromoteRefused)
        => /\ ~panicked
           /\ dfs[lastOp.ret].err # Nil
           /\ lastOp.ret # lastOp.recv
           /\ View(Cur, lastOp.recv) = PreRecv

\* the only value column of a DataFrame with rows was named, and refused
WitC20 ==
    /\ lastOp.op = "PromoteToColLevel"
    /\ PromoteRefused
    /\ Len(PreRecv.values) = 1
    /\ PreRecv.values[1].name = lastOp.args.name
    /\ Len(PreRecv.values[1].vals) = MaxRows
    /\ dfs[lastOp.ret].err # Nil

(***************************************************************************)
(* Part IX: MakeMultiLevelLabels.  The input is a list of []string slices  *)
(* (or values that are no slices); the result is [ret, err, panic].        *)
(***************************************************************************)
\* number of slices handed to MakeMultiLevelLabels, and values of one slice
MaxLevels == 3
MaxLevelVals == 2

RECURSIVE numNewRowsOf(_, _)
\* the loop that multiplies the lengths of labels[1..k]
numNewRowsOf(labels, k) ==
    IF k = 0 THEN 0
    ELSE IF k = 1 THEN Len(labels[1].vals)
    ELSE numNewRowsOf(labels, k - 1) * Len(labels[k].vals)

\* MakeMultiLevelLabels: the first slice repeats each value numRepeats times, every
\* other slice is repeated as a block numRepeats times; numNewRows / v.Len() panics on
\* an empty slice
MakeMultiLevelLabels(labels) ==
    IF \E k \in DOMAIN labels : labels[k].kind # "string"
    THEN [ret |-> <<>>, err |-> TRUE, panic |-> FALSE]
    ELSE IF \E k \in DOMAIN labels : Len(labels[k].vals) = 0
    THEN [ret |-> <<>>, err |-> FALSE, panic |-> TRUE]
    ELSE LET numNewRows == numNewRowsOf(labels, Len(labels))
             NewValues(k) ==
                LET v == labels[k].vals
                    numRepeats == numNewRows \div Len(v)
                IN [offset \in 0..(numNewRows - 1) |->
                       IF k = 1 THEN v[(offset \div numRepeats) + 1]
                       ELSE v[(offset % Len(v)) + 1]]
         IN [ret |-> [k \in DOMAIN labels |->
                        [p \in 1..numNewRows |-> NewValues(k)[p - 1]]],
             err |-> FALSE, panic |-> FALSE]

LevelVals == {"a", "b", "x"}
\* the slices of distinct values
LevelSlices ==
    {StrInput(s) : s \in {q \in SeqsUpTo(LevelVals, MaxLevelVals) :
                             \A i, j \in DOMAIN q : q[i] = q[j] => i = j}}
LevelInputs == SeqsUpTo(LevelSlices, MaxLevels) \cup {<<NotASlice>>}

InitLevels ==
    /\ InitTable
    /\ gin \in LevelInputs
    /\ grp = <<>>
    /\ gout = <<>>

\* MakeMultiLevelLabels(labels)
MakeLabels ==
    /\ gout = <<>>
    /\ gout' = <<MakeMultiLevelLabels(gin)>>
    /\ UNCHANGED <<gin, grp, tvars>>

NextLevels == MakeLabels

SpecLevels == InitLevels /\ [][NextLevels]_vars

\* the rows of the result, each the list of its values over the output slices
LevelRows ==
    LET ret == gout[1].ret
    IN IF ret = <<>> THEN {}
       ELSE {[k \in DOMAIN ret |-> ret[k][p]] : p \in DOMAIN ret[1]}

\* every choice of one value from each input slice
Combinations ==
    {c \in [DOMAIN gin -> LevelVals] : \A k \in DOMAIN gin : c[k] \in Elems(gin[k].vals)}

\* C21: MakeMultiLevelLabels returns the cross product of its input slices: every output
\* slice has as many rows as the product of the input lengths, and every combination of
\* one value from each input slice is exactly one of these rows, for any number of
\* non-empty slices.
CexC21 ==
    (gout # <<>> /\ ~gout[1].err /\ gin # <<>> /\ \A k \in DOMAIN gin : gin[k].vals # <<>>)
        => /\ ~gout[1].panic
           /\ Len(gout[1].ret) = Len(gin)
           /\ \A k \in DOMAIN gin :
                 Len(gout[1].ret[k]) = Cardinality(Combinations)
           /\ LevelRows = Combinations

(***************************************************************************)
(* Further properties of the grouping machine.                             *)
(***************************************************************************)
\* the reduction of the rows of the series that have the composite key k: [val, isNull]
ReductionOf(k) ==
    reduceWith(gout[1].fn, gin.vals, gin.nulls, Ints(RowsWithKey(grp[1].index, k)))

\* C23: in aligned mode a grouped reduction has the length and row order of the input
\* and every row holds the reduced value and null flag of the group that contains it; in
\* default mode it has one row per group, row i being the reduction of the group of
\* orderedKeys[i].
ThmC23 ==
    gout # <<>> =>
        LET g == grp[1]
            ret == gout[1].ret
        IN IF g.aligned
           THEN /\ Len(ret.slice) = Len(gin.vals) /\ Len(ret.isNull) = Len(gin.vals)
                /\ \A r \in GroupRows :
                      /\ ret.slice[r + 1] = ReductionOf(CompositeKey(g.index, r)).val
                      /\ ret.isNull[r + 1] = ReductionOf(CompositeKey(g.index, r)).isNull
           ELSE /\ Len(ret.slice) = Len(g.orderedKeys) /\ Len(ret.isNull) = Len(g.orderedKeys)
                /\ \A i \in DOMAIN g.orderedKeys :
                      /\ ret.slice[i] = ReductionOf(g.orderedKeys[i]).val
                      /\ ret.isNull[i] = ReductionOf(g.orderedKeys[i]).isNull

\* an aligned sum over two groups whose rows alternate and whose sums differ
WitC23 ==
    /\ gout # <<>>
    /\ grp[1].aligned
    /\ gout[1].fn = "sum"
    /\ Len(gin.vals) = 3
    /\ Len(grp[1].orderedKeys) = 2
    /\ CompositeKey(grp[1].index, 0) = CompositeKey(grp[1].index, 2)
    /\ gout[1].ret.slice[1] = gout[1].ret.slice[3]
    /\ gout[1].ret.slice[1] # gout[1].ret.slice[2]
    /\ ~gout[1].ret.isNull[1] /\ ~gout[1].ret.isNull[2]

(***************************************************************************)
(* Part X: rank and percentile over (vals, isNull, index).  A float64 rank *)
(* is an integer, a percentile a fraction.                                 *)
(***************************************************************************)
\* rows of a generated input of rank and percentile, and the largest value
MaxRankRows == 3
MaxRankVal == 2
\* the result for a null
NullRank == -999

\* the floatValueContainer rank and percentile build: the first len(index) values and
\* null flags, with the positions 0, 1, ...
copyAtIndex(vals, isNull, index) ==
    [i \in 1..Len(index) |-> [val |-> vals[i], isNull |-> isNull[i], index |-> i - 1]]

RECURSIVE rankLoop(_, _, _, _)
\* the loop of floatValueContainer.rank over the sorted items, from the i-th (from 1) on
rankLoop(sorted, i, offset, ret) ==
    IF i > Len(sorted) THEN ret
    ELSE LET originalPosition == sorted[i].index
         IN IF sorted[i].isNull
            THEN rankLoop(sorted, i + 1, offset - 1,
                          [ret EXCEPT ![originalPosition + 1] = NullRank])
            ELSE IF i = 1
            THEN rankLoop(sorted, i + 1, offset, [ret EXCEPT ![originalPosition + 1] = 1])
            ELSE IF sorted[i].val = sorted[i - 1].val
            THEN rankLoop(sorted, i + 1, offset - 1,
                          [ret EXCEPT ![originalPosition + 1] = ret[sorted[i - 1].index + 1]])
            ELSE rankLoop(sorted, i + 1, offset,
                          [ret EXCEPT ![originalPosition + 1] = i + offset])

\* rank: the ranks, in the order of the copied rows
rank(vals, isNull, index) ==
    LET sorted == Stable(FALSE, copyAtIndex(vals, isNull, index), <<>>)
    IN rankLoop(sorted, 1, 0, [i \in 1..Len(index) |-> 0])

RECURSIVE percentileLoop(_, _, _, _, _)
\* the loop of floatValueContainer.percentile over the items rank has left sorted
percentileLoop(sorted, validCount, i, counter, ret) ==
    IF i > Len(sorted) THEN ret
    ELSE LET originalPosition == sorted[i].index
             pct == IF validCount = 0 THEN NaN ELSE Quot(counter, validCount)
         IN IF sorted[i].isNull
            THEN percentileLoop(sorted, validCount, i + 1, counter,
                                [ret EXCEPT ![originalPosition + 1] = F(NullRank)])
            ELSE IF i > 1 /\ sorted[i].val = sorted[i - 1].val
            THEN percentileLoop(sorted, validCount, i + 1, counter + 1,
                     [ret EXCEPT ![originalPosition + 1] = ret[sorted[i - 1].index + 1]])
            ELSE percentileLoop(sorted, validCount, i + 1, counter + 1,
                                [ret EXCEPT ![originalPosition + 1] = pct])

\* percentile: the percentiles, in the order of the copied rows
percentile(vals, isNull, index) ==
    LET items == copyAtIndex(vals, isNull, index)
        validCount == Cardinality({i \in DOMAIN items : ~items[i].isNull})
        sorted == Stable(FALSE, items, <<>>)
    IN percentileLoop(sorted, validCount, 1, 0, [i \in 1..Len(index) |-> F(0)])

\* ---- the rank machine: one series, ranked once over a list of row positions

\* a valid value, or a null row holding the zero value or a value of its own
RankCells == {[val |-> v, null |-> FALSE] : v \in 1..MaxRankVal}
             \cup {[val |-> v, null |-> TRUE] : v \in 0..1}

\* the ascending lists of row positions of a series of n rows
PositionLists(n) ==
    {Ints(P) : P \in (SUBSET (0..(n - 1))) \ {{}}}

RankInputs ==
    UNION {{[vals |-> [i \in 1..n |-> c[i].val], nulls |-> [i \in 1..n |-> c[i].null],
             index |-> index] : c \in [1..n -> RankCells], index \in PositionLists(n)}
              : n \in 1..MaxRankRows}

InitRank ==
    /\ InitTable
    /\ gin \in RankInputs
    /\ grp = <<>>
    /\ gout = <<>>

Rank ==
    /\ gout = <<>>
    /\ gout' = <<[fn |-> "rank", ret |-> rank(gin.vals, gin.nulls, gin.index)]>>
    /\ UNCHANGED <<gin, grp, tvars>>

Percentile ==
    /\ gout = <<>>
    /\ gout' = <<[fn |-> "percentile", ret |-> percentile(gin.vals, gin.nulls, gin.index)]>>
    /\ UNCHANGED <<gin, grp, tvars>>

NextRank ==
    \/ Rank
    \/ Percentile

SpecRank == InitRank /\ [][NextRank]_vars

\* ---- claims about the rank machine

\* the non-null values at the row positions that are strictly smaller than the value at
\* the p-th of the positions
SmallerThan(p) ==
    {q \in DOMAIN gin.index : /\ ~gin.nulls[gin.index[q] + 1]
                              /\ gin.vals[gin.index[q] + 1] < gin.vals[gin.index[p] + 1]}
ValidPositions == {q \in DOMAIN gin.index : ~gin.nulls[gin.index[q] + 1]}

\* C24: rank gives every non-null value at the row positions the rank 1 + the number of
\* non-null values at those positions that are strictly smaller, and every null -999;
\* nulls never change the rank of a non-null value.
CexC24 ==
    (gout # <<>> /\ gout[1].fn = "rank") =>
        /\ Len(gout[1].ret) = Len(gin.index)
        /\ \A p \in DOMAIN gin.index :
              gout[1].ret[p] = IF gin.nulls[gin.index[p] + 1] THEN NullRank
                               ELSE 1 + Cardinality(SmallerThan(p))

\* C25: percentile gives every non-null value at the row positions the number of non-null
\* values strictly smaller than it divided by the number of non-null values, which lies
\* in [0,1), and every null -999.
CexC25 ==
    (gout # <<>> /\ gout[1].fn = "percentile") =>
        /\ Len(gout[1].ret) = Len(gin.index)
        /\ \A p \in DOMAIN gin.index :
              IF gin.nulls[gin.index[p] + 1] THEN gout[1].ret[p] = F(NullRank)
              ELSE /\ gout[1].ret[p] = Quot(Cardinality(SmallerThan(p)),
                                            Cardinality(ValidPositions))
                   /\ gout[1].ret[p].num >= 0
                   /\ gout[1].ret[p].num < gout[1].ret[p].den

(***************************************************************************)
(* Part XI: LookupAdvanced, from the key names to the returned table.      *)
(* Tables are [labels, values, colLevelNames, name, err] as in Part VII.   *)
(***************************************************************************)
\* rows of a generated table of the join machine
MaxJoinRows == 2

RECURSIVE findMatchingKeysLoop(_, _, _, _, _)
\* the loop of findMatchingKeysBetweenTwoLabelContainers over labels1[j..]:
\* keys = [left, right]
findMatchingKeysLoop(labels1, labels2, j, searched, keys) ==
    IF j > Len(labels1) THEN keys
    ELSE LET key == labels1[j].name
             hits == {k \in DOMAIN labels2 : labels2[k].name = key}
             k == CHOOSE k \in hits : \A o \in hits : k <= o
         IN IF key \in searched
            THEN findMatchingKeysLoop(labels1, labels2, j + 1, searched, keys)
            ELSE findMatchingKeysLoop(labels1, labels2, j + 1, searched \cup {key},
                    IF hits = {} THEN keys
                    ELSE [left |-> Append(keys.left, j - 1),
                          right |-> Append(keys.right, k - 1)])

findMatchingKeysBetweenTwoLabelContainers(labels1, labels2) ==
    findMatchingKeysLoop(labels1, labels2, 1, {}, [left |-> <<>>, right |-> <<>>])

\* convertColNamesToIndexPositions: the positions, or <<-1>> for the error
convertColNamesToIndexPositions(names, columns) == NamedPositions(FALSE, names, columns, 1)

\* the keys lookupDataFrameWithAnchor compares: toLookup holds one composite key per
\* row of the anchor, lookupSource maps a composite key of the other table to its first row
lookupKeys(mergedLabelsCols1, leftOn, mergedLabelsCols2, rightOn) ==
    [toLookup |-> concatenateLabelsToStrings(mergedLabelsCols1, leftOn),
     lookupSource |-> labelsToMap(Slices(mergedLabelsCols2), rightOn).firstIndex]

\* DataFrame.DropNull() of a looked-up table: the rows without a null in any column
DropNullOf(df) ==
    LET kept == DropNull([labels |-> df.labels, values |-> df.values, err |-> FALSE], <<>>)
    IN IF "panic" \in DOMAIN kept THEN PanicTable
       ELSE [df EXCEPT !.labels = kept.labels, !.values = kept.values]

\* lookupDataFrame: the table, or err
lookupDataFrame(how, name, colLevelNames, values1, labels1, leftOn, values2, labels2, rightOn, excludeLeft, excludeRight) ==
    LET mergedLabelsCols1 == labels1 \o values1
        mergedLabelsCols2 == labels2 \o values2
        left == lookupDataFrameWithAnchor(name, colLevelNames, mergedLabelsCols1, labels1,
                    leftOn, values2, mergedLabelsCols2, rightOn, excludeRight)
    IN CASE how = "left" -> left @@ [err |-> FALSE]
         [] how = "right" ->
              lookupDataFrameWithAnchor(name, colLevelNames, mergedLabelsCols2, labels2,
                  rightOn, values1, mergedLabelsCols1, leftOn, excludeLeft) @@ [err |-> FALSE]
         [] how = "inner" -> IF left.panic THEN left ELSE DropNullOf(left) @@ [err |-> FALSE]
         [] OTHER -> [err |-> TRUE]

\* DataFrame.LookupAdvanced: [err, labels, values, name, colLevelNames]
LookupAdvanced(df, other, how, leftOn, rightOn) ==
    LET mergedLabelsAndCols == df.labels \o df.values
        otherMergedLabelsAndCols == other.labels \o other.values
        auto == findMatchingKeysBetweenTwoLabelContainers(mergedLabelsAndCols,
                                                           otherMergedLabelsAndCols)
        leftKeys == IF Len(leftOn) = 0 THEN auto.left
                    ELSE convertColNamesToIndexPositions(leftOn, mergedLabelsAndCols)
        rightKeys == IF Len(leftOn) = 0 THEN auto.right
                     ELSE convertColNamesToIndexPositions(rightOn, otherMergedLabelsAndCols)
    IN IF (Len(leftOn) = 0) # (Len(rightOn) = 0) THEN [err |-> TRUE]
       ELSE IF leftKeys = <<-1>> \/ rightKeys = <<-1>> THEN [err |-> TRUE]
       ELSE lookupDataFrame(how, df.name, df.colLevelNames, df.values, df.labels, leftKeys,
                            other.values, other.labels, rightKeys, leftOn, rightOn)

\* the key positions LookupAdvanced resolves: [left, right], or <<-1>> for an error
ResolvedKeys(df, other, leftOn, rightOn) ==
    LET m1 == df.labels \o df.values
        m2 == other.labels \o other.values
    IN IF Len(leftOn) = 0 THEN findMatchingKeysBetweenTwoLabelContainers(m1, m2)
       ELSE [left |-> convertColNamesToIndexPositions(leftOn, m1),
             right |-> convertColNamesToIndexPositions(rightOn, m2)]

\* ---- the join machine: a primary and a secondary table, each with one label level
\* and two columns, and one LookupAdvanced call

JoinKeyCells == {"a", "b"}
JoinValueCells == {"1", ""}
LeftLayouts == {<<"id", "k", "v">>, <<"k", "id", "v">>, <<"k", "k", "v">>}
RightLayouts == {<<"rid", "k", "w">>, <<"k", "rid", "w">>}

\* the table of the containers named `lay`: the first is the label level
JoinTable(lay, cells) ==
    MkTable(<<TypedColumn(lay[1], cells[1])>>,
            <<TypedColumn(lay[2], cells[2]), TypedColumn(lay[3], cells[3])>>, <<"*0">>, "")

JoinInputs ==
    UNION {{[df |-> JoinTable(l, <<a, b, [i \in 1..n1 |-> "1"]>>),
             other |-> JoinTable(r, <<c, d, w>>)] :
               l \in LeftLayouts, r \in RightLayouts,
               a \in [1..n1 -> JoinKeyCells], b \in [1..n1 -> JoinKeyCells],
               c \in [1..n2 -> JoinKeyCells], d \in [1..n2 -> JoinKeyCells],
               w \in [1..n2 -> JoinValueCells]} :
           n1 \in 1..MaxJoinRows, n2 \in 1..MaxJoinRows}

\* the calls: <<how, leftOn, rightOn>>
JoinCalls == {<<"left", <<>>, <<>> >>, <<"left", <<"k">>, <<"k">> >>,
              <<"left", <<"id">>, <<"rid">> >>, <<"right", <<"k">>, <<"k">> >>,
              <<"left", <<"k", "id">>, <<"k", "rid">> >>,
              <<"inner", <<"id", "v">>, <<"rid", "w">> >>,
              <<"inner", <<>>, <<>> >>, <<"inner", <<"k">>, <<"k">> >>,
              <<"outer", <<>>, <<>> >>, <<"left", <<"k">>, <<>> >>,
              <<"left", <<"zz">>, <<"k">> >>}

InitJoin ==
    /\ InitTable
    /\ gin \in JoinInputs
    /\ grp = <<>>
    /\ gout = <<>>

\* df.LookupAdvanced(other, how, leftOn, rightOn); grp keeps the keys that were compared
DoLookupAdvanced ==
    \E c \in JoinCalls :
        /\ gout = <<>>
        /\ LET keys == ResolvedKeys(gin.df, gin.other, c[2], c[3])
               ret == LookupAdvanced(gin.df, gin.other, c[1], c[2], c[3])
           IN /\ gout' = <<[how |-> c[1], leftOn |-> c[2], rightOn |-> c[3], ret |-> ret]>>
              /\ grp' = IF ret.err \/ c[1] = "right" THEN <<>>
                        ELSE <<lookupKeys(gin.df.labels \o gin.df.values, keys.left,
                                          gin.other.labels \o gin.other.values, keys.right)>>
        /\ UNCHANGED <<gin, tvars>>

NextJoin == DoLookupAdvanced

SpecJoin == InitJoin /\ [][NextJoin]_vars

\* ---- properties of the join machine

\* position (from 0) of the first container named `name`
FirstPositionOf(name, cols) ==
    (CHOOSE j \in DOMAIN cols : cols[j].name = name /\ \A o \in 1..(j - 1) : cols[o].name # name) - 1

\* positions (from 0) of the containers of cols1 that are the first of their name and
\* whose name occurs in cols2, in the order of cols1
CommonFirst(cols1, cols2) ==
    SelectSeq([j \in DOMAIN cols1 |-> j - 1],
              LAMBDA p : /\ FirstPositionOf(cols1[p + 1].name, cols1) = p
                         /\ \E o \in DOMAIN cols2 : cols2[o].name = cols1[p + 1].name)

\* the key columns of a completed call, by the rule for leftOn/rightOn and for matching names
KeyColumns ==
    LET m1 == gin.df.labels \o gin.df.values
        m2 == gin.other.labels \o gin.other.values
        common == CommonFirst(m1, m2)
        c == gout[1]
    IN IF c.leftOn = <<>>
       THEN [left |-> common,
             right |-> [j \in DOMAIN common |-> FirstPositionOf(m1[common[j] + 1].name, m2)]]
       ELSE [left |-> [j \in DOMAIN c.leftOn |-> FirstPositionOf(c.leftOn[j], m1)],
             right |-> [j \in DOMAIN c.rightOn |-> FirstPositionOf(c.rightOn[j], m2)]]

\* a call with the primary table as the anchor has returned a table
Joined == gout # <<>> /\ grp # <<>>

\* C26: the composite key of every row of the primary table and of the secondary table is
\* built from the key columns resolved for that side, in their order, wherever they are
\* positioned among the labels and columns
CexC26 ==
    Joined =>
        LET m1 == gin.df.labels \o gin.df.values
            m2 == gin.other.labels \o gin.other.values
            rows2 == 1..Len(m2[1].slice)
        IN /\ \A i \in 1..Len(m1[1].slice) :
                  grp[1].toLookup[i] = KeyOfRow(m1, KeyColumns.left, i)
           /\ DOMAIN grp[1].lookupSource = {KeyOfRow(m2, KeyColumns.right, r) : r \in rows2}
           /\ \A r \in rows2 :
                  KeyOfRow(m2, KeyColumns.right, grp[1].lookupSource[KeyOfRow(m2, KeyColumns.right, r)] + 1)
                      = KeyOfRow(m2, KeyColumns.right, r)

\* the same, for calls whose primary key columns are the leading containers
KeysLeadC26 ==
    (Joined /\ KeyColumns.left = [j \in DOMAIN KeyColumns.left |-> j - 1]) => CexC26

\* the secondary side alone
SecondaryC26 ==
    Joined =>
        LET m2 == gin.other.labels \o gin.other.values
        IN DOMAIN grp[1].lookupSource =
               {KeyOfRow(m2, KeyColumns.right, r) : r \in 1..Len(m2[1].slice)}

\* the left lookup corresponding to the completed call
LeftLookup == LookupAdvanced(gin.df, gin.other, "left", gout[1].leftOn, gout[1].rightOn)

\* the rows (from 0) of the left lookup in which not every looked-up column is null
RowsWithAMatch ==
    SelectSeq(makeIntRange(0, Len(LeftLookup.labels[1].slice)),
              LAMBDA i : \E k \in DOMAIN LeftLookup.values : ~LeftLookup.values[k].isNull[i + 1])

\* an inner lookup has returned a table
InnerJoined == gout # <<>> /\ gout[1].how = "inner" /\ ~gout[1].ret.err

\* C27: an inner lookup returns the rows of the left lookup, in order, in which not every
\* looked-up column is null, and an unknown `how` gives an error and no table
CexC27 ==
    /\ InnerJoined =>
          /\ gout[1].ret.labels = [j \in DOMAIN LeftLookup.labels |->
                                       RowsAt(LeftLookup.labels[j], RowsWithAMatch)]
          /\ gout[1].ret.values = [k \in DOMAIN LeftLookup.values |->
                                       RowsAt(LeftLookup.values[k], RowsWithAMatch)]
    /\ (gout # <<>> /\ gout[1].how \notin {"left", "right", "inner"}) =>
          (gout[1].ret.err /\ DOMAIN gout[1].ret = {"err"})

\* the same, for left lookups in which every row is null in all looked-up columns or in none
AllOrNoneC27 ==
    (gout # <<>> /\ ~LeftLookup.err
       /\ \A i \in 1..Len(LeftLookup.labels[1].slice) :
             \A k, o \in DOMAIN LeftLookup.values :
                 LeftLookup.values[k].isNull[i] = LeftLookup.values[o].isNull[i]) => CexC27

(***************************************************************************)
(* Further properties of the sorter machine.                               *)
(***************************************************************************)
\* what Sorter s compares of row r: the projection of its column to the comparison kind
SortKey(s, r) ==
    LET d == coerce(s.DType, gin[indexOfContainer(s.Name, gin) + 1])
    IN [null |-> d.isNull[r + 1], val |-> d.slice[r + 1]]

\* row r1 comes strictly before row r2 by Sorter s: a null after every value, values in
\* the direction of s
Precedes(s, r1, r2) ==
    LET a == SortKey(s, r1)
        b == SortKey(s, r2)
    IN IF a.null \/ b.null THEN ~a.null /\ b.null
       ELSE IF s.Descending THEN b.val < a.val ELSE a.val < b.val

TiedOn(s, r1, r2) == ~Precedes(s, r1, r2) /\ ~Precedes(s, r2, r1)

\* r1 comes before r2 by the first Sorter on which they are not tied
LexPrecedes(by, r1, r2) ==
    \E i \in DOMAIN by : Precedes(by[i], r1, r2) /\ \A j \in 1..(i - 1) : TiedOn(by[j], r1, r2)

\* C28: a sort by s1..sn returns a permutation of all rows ordered by s1, ties on s1
\* ordered by s2 and so on, rows tied on every Sorter in their original order, and the
\* rows keep their stored cells and null flags.
ThmC28 ==
    Sorted =>
        LET index == gout[1].ret.index
            by == gout[1].by
        IN /\ IsPermutation(index, SortRows)
           /\ \A p, q \in DOMAIN index :
                (p < q) =>
                   /\ ~LexPrecedes(by, index[q], index[p])
                   /\ (\A i \in DOMAIN by : TiedOn(by[i], index[p], index[q]))
                         => index[p] < index[q]
           /\ \A k \in DOMAIN gin, p \in DOMAIN index :
                /\ gout[1].values[k].slice[p] = gin[k].slice[index[p] + 1]
                /\ gout[1].values[k].isNull[p] = gin[k].isNull[index[p] + 1]
                /\ gout[1].values[k].name = gin[k].name

\* a sort by two Sorters exchanged two rows tied on the first, left two rows tied on both
\* in place, and kept a cell that fails the coercion as it was stored
WitC28 ==
    /\ Sorted
    /\ Len(gout[1].by) = 2
    /\ gout[1].by[1].DType = "Float"
    /\ LET index == gout[1].ret.index
           by == gout[1].by
       IN /\ Len(index) = 3
          /\ \E p, q \in DOMAIN index :
                /\ p < q /\ index[p] > index[q]
                /\ TiedOn(by[1], index[p], index[q])
                /\ Precedes(by[2], index[p], index[q])
          /\ \E p \in DOMAIN index :
                /\ gout[1].values[1].slice[p] = "a"
                /\ ~gout[1].values[1].isNull[p]
                /\ SortKey(by[1], index[p]).null

(***************************************************************************)
(* Further properties of the reshape machine: the layout of a promotion.   *)
(***************************************************************************)
\* a promotion has returned a table
PromotedTable == gout # <<>> /\ gout[1].op = "PromoteToColLevel" /\ ~gout[1].ret.err

\* the promoted container, its unique values, the remaining value columns and the
\* residual label levels of the table gin
PromotedContainer == ContainerOf(gout[1].args[1])
UniquePromoted == FirstOccurrences(PromotedContainer.slice)
RemainingColumns ==
    SelectSeq(gin.values, LAMBDA c : c.name # PromotedContainer.name
                                     \/ \E j \in DOMAIN gin.labels : gin.labels[j] = PromotedContainer)
ResidualLevels == SelectSeq(gin.labels, LAMBDA c : c # PromotedContainer)

\* the original rows (from 1) with promoted value u whose residual labels are those of
\* row p of the returned table
WritersOf(u, p) ==
    {r \in DOMAIN PromotedContainer.slice :
        /\ PromotedContainer.slice[r] = u
        /\ \A j \in DOMAIN ResidualLevels :
              ResidualLevels[j].slice[r] = gout[1].ret.labels[j].slice[p]}

\* the returned column of the pair (remaining column k, unique value j)
PairColumn(k, j) == gout[1].ret.values[(k - 1) * Len(UniquePromoted) + j]

\* the headers, the number of columns and the column level names of a promotion
PromotedHeaders ==
    /\ Len(gout[1].ret.values) = Len(RemainingColumns) * Len(UniquePromoted)
    /\ \A k \in DOMAIN RemainingColumns, j \in DOMAIN UniquePromoted :
          PairColumn(k, j).name = Join(<<UniquePromoted[j], RemainingColumns[k].name>>, "|")
    /\ \A q, o \in DOMAIN gout[1].ret.values :
          (q # o) => gout[1].ret.values[q].name # gout[1].ret.values[o].name
    /\ gout[1].ret.colLevelNames = <<PromotedContainer.name>> \o gin.colLevelNames
    /\ \A r \in DOMAIN PromotedContainer.slice :
          \E p \in DOMAIN gout[1].ret.labels[1].slice :
              \A j \in DOMAIN ResidualLevels :
                  ResidualLevels[j].slice[r] = gout[1].ret.labels[j].slice[p]

\* C29 (as amended): one returned column per pair (remaining column c, unique promoted
\* value u_j), headed join(u_j, c); its cell in a residual-label row holds the cell of c
\* and the null flag of the last original row with these residual labels and promoted
\* value u_j, and is null if there is no such row; the column level names are the
\* promoted name prepended to the prior ones.
ThmC29 ==
    PromotedTable =>
        /\ PromotedHeaders
        /\ \A k \in DOMAIN RemainingColumns, j \in DOMAIN UniquePromoted :
             \A p \in DOMAIN gout[1].ret.labels[1].slice :
                LET writers == WritersOf(UniquePromoted[j], p)
                    final == CHOOSE r \in writers : \A o \in writers : o <= r
                IN IF writers = {} THEN PairColumn(k, j).isNull[p]
                   ELSE /\ PairColumn(k, j).slice[p] = RemainingColumns[k].slice[final]
                        /\ PairColumn(k, j).isNull[p] = RemainingColumns[k].isNull[final]

\* a promotion of a label level returned a cell written from an original row, a cell no
\* row wrote, and a cell two original rows wrote
WitC29 ==
    /\ PromotedTable
    /\ gout[1].args[1] = "c"
    /\ Len(UniquePromoted) = 2
    /\ \E p, q \in DOMAIN gout[1].ret.labels[1].slice :
          /\ WritersOf(UniquePromoted[1], p) # {}
          /\ ~PairColumn(1, 1).isNull[p]
          /\ WritersOf(UniquePromoted[2], p) = {}
          /\ Cardinality(WritersOf(UniquePromoted[2], q)) = 2

\* C29 (as claimed): the cell holds the cell of c and the null flag of every original row
\* with these residual labels and promoted value u_j.
CexC29 ==
    PromotedTable =>
        /\ PromotedHeaders
        /\ \A k \in DOMAIN RemainingColumns, j \in DOMAIN UniquePromoted :
             \A p \in DOMAIN gout[1].ret.labels[1].slice :
                LET writers == WritersOf(UniquePromoted[j], p)
                IN /\ writers = {} => PairColumn(k, j).isNull[p]
                   /\ \A r \in writers :
                        /\ PairColumn(k, j).slice[p] = RemainingColumns[k].slice[r]
                        /\ PairColumn(k, j).isNull[p] = RemainingColumns[k].isNull[r]

\* the same, for tables in which no two rows share residual labels and promoted value
DistinctC29 ==
    (PromotedTable
       /\ \A j \in DOMAIN UniquePromoted : \A p \in DOMAIN gout[1].ret.labels[1].slice :
             Cardinality(WritersOf(UniquePromoted[j], p)) <= 1) => CexC29

(***************************************************************************)
(* Part XII: Transpose.  Tables are as in Part VII; a float64 column holds *)
(* fractions, a string column holds strings.                               *)
(***************************************************************************)
\* rows of a generated table of the transposition machine
MaxTransposeRows == 2

\* vc.string().slice: the cells of a column as strings
stringSlice(vc) ==
    [i \in DOMAIN vc.slice |->
        IF vc.kind = "float64" THEN ToString(vc.slice[i].num \div vc.slice[i].den)
        ELSE vc.slice[i]]

\* splitLabelIntoLevels(label, multiLevel)
splitLabelIntoLevelsIf(label, multiLevel) ==
    IF multiLevel THEN splitLabelIntoLevels(label) ELSE <<label>>

\* DataFrame.Transpose.  values[0] gives the number of rows; the two copy loops write
\* colNames[i][j] and vals[i][k] for every cell of a label level and of a column, so a
\* level or a column longer than values[0] is an index out of range, as is a null mask
\* shorter than its cells and a column name of more levels than the table has column
\* levels; a shorter level or column leaves "" and false in the rows it does not reach
Transpose(t) ==
    IF t.values = <<>> THEN PanicTable
    ELSE LET R == Len(t.values[1].slice)
             C == Len(t.values)
             split == [k \in 1..C |-> splitLabelIntoLevelsIf(t.values[k].name,
                                                              Len(t.colLevelNames) > 1)]
             colNames == [i \in 1..R |->
                            [j \in DOMAIN t.labels |->
                                IF i <= Len(t.labels[j].slice)
                                THEN stringSlice(t.labels[j])[i] ELSE ""]]
         IN IF \/ \E j \in DOMAIN t.labels : Len(t.labels[j].slice) > R
               \/ \E k \in 1..C : \/ Len(split[k]) > Len(t.colLevelNames)
                                  \/ Len(t.values[k].slice) > R
                                  \/ Len(t.values[k].isNull) < Len(t.values[k].slice)
            THEN PanicTable
            ELSE [labels |-> [l \in DOMAIN t.colLevelNames |->
                                [kind |-> "string", name |-> t.colLevelNames[l],
                                 slice |-> [k \in 1..C |-> IF l <= Len(split[k])
                                                           THEN split[k][l] ELSE ""],
                                 isNull |-> [k \in 1..C |-> FALSE]]],
                  values |-> [i \in 1..R |->
                                [kind |-> "string",
                                 name |-> joinLevelsIntoLabel(colNames[i]),
                                 slice |-> [k \in 1..C |->
                                              IF i <= Len(t.values[k].slice)
                                              THEN stringSlice(t.values[k])[i] ELSE ""],
                                 isNull |-> [k \in 1..C |->
                                               IF i <= Len(t.values[k].slice)
                                               THEN t.values[k].isNull[i] ELSE FALSE]]],
                  colLevelNames |-> [j \in DOMAIN t.labels |-> t.labels[j].name],
                  name |-> t.name, err |-> FALSE]

\* ---- the transposition machine: one table, transposed once and then once more

\* a float64 column with the cells `cells`, 0 standing for a null
FloatColumn(name, cells) ==
    [kind |-> "float64", name |-> name, slice |-> [i \in DOMAIN cells |-> F(cells[i])],
     isNull |-> [i \in DOMAIN cells |-> cells[i] = 0]]

\* one or two label levels of n rows
TransposeLabels(n) ==
    {<<TypedColumn("l", a)>> : a \in [1..n -> {"a", "b"}]}
    \cup {<<TypedColumn("l", a), TypedColumn("c", b)>> :
             a \in [1..n -> {"a", "b"}], b \in [1..n -> {"x", "y"}]}

\* the value columns with their column level names: the first column has n rows, the
\* second m rows (NewDataFrame takes slices of any lengths)
TransposeColumns(n, m) ==
    {[values |-> <<TypedColumn("v", a)>>, colLevelNames |-> <<"*0">>] :
        a \in [1..n -> {"1", ""}]}
    \cup {[values |-> <<TypedColumn("v", a), FloatColumn("n", b)>>,
           colLevelNames |-> <<"*0">>] : a \in [1..n -> {"1", ""}], b \in [1..m -> 0..2]}
    \cup {[values |-> <<TypedColumn("x|v", a), TypedColumn("y|v", b)>>,
           colLevelNames |-> <<"c", "*0">>] :
             a \in [1..n -> {"1", ""}], b \in [1..m -> {"1", ""}]}

\* the tables of the machine: label levels of nl rows, columns of n and m rows
TransposeInputs ==
    UNION {{MkTable(ls, cs.values, cs.colLevelNames, "t") :
               ls \in TransposeLabels(nl), cs \in TransposeColumns(n, m)} :
           nl \in 1..MaxTransposeRows, n \in 1..MaxTransposeRows,
           m \in 1..MaxTransposeRows}

InitTranspose ==
    /\ InitTable
    /\ gin \in TransposeInputs
    /\ grp = <<>>
    /\ gout = <<>>

\* df.Transpose()
DoTranspose ==
    /\ gout = <<>>
    /\ gout' = <<[op |-> "Transpose", ret |-> Transpose(gin)]>>
    /\ UNCHANGED <<gin, grp, tvars>>

\* df.Transpose().Transpose()
TransposeBack ==
    /\ Len(gout) = 1
    /\ ~gout[1].ret.err
    /\ gout' = Append(gout, [op |-> "Transpose", ret |-> Transpose(gout[1].ret)])
    /\ UNCHANGED <<gin, grp, tvars>>

NextTranspose ==
    \/ DoTranspose
    \/ TransposeBack

SpecTranspose == InitTranspose /\ [][NextTranspose]_vars

\* ---- properties of the transposition machine

\* the cell (row i, column k) of a table as [string, isNull]
CellOf(t, i, k) == [str |-> stringSlice(t.values[k])[i], isNull |-> t.values[k].isNull[i]]

\* the header of column k, and the label values of row i joined over the levels
HeaderOf(t, k) == t.values[k].name
RowLabelOf(t, i) == Join([j \in DOMAIN t.labels |-> stringSlice(t.labels[j])[i]], "|")

\* the number of rows as DataFrame.Len gives it, and the number of columns
NumRows(t) == Len(t.values[1].slice)
NumCols(t) == Len(t.values)

\* row i has a cell in column k, and a value in every label level
HasCell(t, i, k) == i \in DOMAIN t.values[k].slice /\ i \in DOMAIN t.values[k].isNull
HasRowLabel(t, i) == \A j \in DOMAIN t.labels : i \in DOMAIN t.labels[j].slice

\* u is the transposition of t
IsTransposeOf(u, t) ==
    /\ ~u.err
    /\ NumRows(u) = NumCols(t) /\ NumCols(u) = NumRows(t)
    /\ \A i \in 1..NumRows(t), k \in 1..NumCols(t) :
          HasCell(t, i, k) =>
             /\ u.values[i].kind = "string"
             /\ u.values[i].slice[k] = CellOf(t, i, k).str
             /\ u.values[i].isNull[k] = CellOf(t, i, k).isNull
    /\ \A k \in 1..NumCols(t) : RowLabelOf(u, k) = HeaderOf(t, k)
    /\ \A i \in 1..NumRows(t) : HasRowLabel(t, i) => HeaderOf(u, i) = RowLabelOf(t, i)
    /\ [l \in DOMAIN u.labels |-> u.labels[l].name] = t.colLevelNames
    /\ u.colLevelNames = [j \in DOMAIN t.labels |-> t.labels[j].name]

\* C30: the transposition of a table with R rows and C columns has C rows and R columns,
\* its cell (k, i) is the string and the null flag of the original cell (i, k), column
\* names and label values change places, label level names and column level names change
\* places, and transposing twice gives back the shape, the headers and the cells as strings.
CexC30 ==
    /\ (Len(gout) >= 1) => IsTransposeOf(gout[1].ret, gin)
    /\ (Len(gout) = 2) =>
          LET back == gout[2].ret
          IN /\ ~back.err
             /\ NumRows(back) = NumRows(gin) /\ NumCols(back) = NumCols(gin)
             /\ \A i \in 1..NumRows(gin), k \in 1..NumCols(gin) :
                   HasCell(gin, i, k) => CellOf(back, i, k) = CellOf(gin, i, k)
             /\ \A k \in 1..NumCols(gin) : HeaderOf(back, k) = HeaderOf(gin, k)
             /\ \A j \in DOMAIN gin.labels :
                   /\ back.labels[j].name = gin.labels[j].name
                   /\ Len(gin.labels[j].slice) = NumRows(gin)
                         => back.labels[j].slice = stringSlice(gin.labels[j])
             /\ back.colLevelNames = gin.colLevelNames

\* every column and every label level of the table has the rows of its first column
OneLength(t) ==
    /\ \A k \in DOMAIN t.values : Len(t.values[k].slice) = NumRows(t)
    /\ \A j \in DOMAIN t.labels : Len(t.labels[j].slice) = NumRows(t)

\* the same, for the tables whose columns and label levels have one length
OneLengthC30 == OneLength(gin) => CexC30

\* a table of 2 rows and 2 columns with two label levels, a float64 cell and a null cell
\* was transposed twice
TransposedTwice ==
    /\ Len(gout) = 2
    /\ OneLength(gin)
    /\ NumRows(gin) = 2 /\ NumCols(gin) = 2
    /\ Len(gin.labels) = 2
    /\ gin.values[2].kind = "float64"
    /\ gin.values[1].isNull[1] /\ ~gin.values[2].isNull[2]
    /\ gout[1].ret.values[2].slice[2] \in {"1", "2"}

\* a column longer than the first column was transposed: the call panicked
LongerColumnTransposed ==
    /\ Len(gout) = 1
    /\ Len(gin.values) = 2
    /\ Len(gin.values[2].slice) > Len(gin.values[1].slice)
    /\ "panic" \in DOMAIN gout[1].ret

(***************************************************************************)
(* Part XIII: the table machine, completed with the calls that select      *)
(* rows and containers, rename, merge, relabel, format, fill and cast.     *)
(***************************************************************************)
\* valueContainer.filter with the function String(s) = (s == "a") selected, or with no
\* function selected: returns [index, err, panic]; the null flag of a row is read only
\* when the function holds of its value
filter(h, c, fn) ==
    LET vc == h.vcs[c]
        slice == str(h, c)
        hits == {i \in 1..Len(slice) : slice[i] = "a"}
        nulls == ReadBool(h, vc.isNull)
    IN IF fn # "String" THEN [index |-> <<>>, err |-> TRUE, panic |-> FALSE]
       ELSE IF \E i \in hits : i > vc.isNull.len
       THEN [index |-> <<>>, err |-> FALSE, panic |-> TRUE]
       ELSE [index |-> Ints({i - 1 : i \in {o \in hits : ~nulls[o]}}), err |-> FALSE,
             panic |-> FALSE]

\* filter over the containers, for the map {name: fn}: returns [index, err, panic]
filterContainers(h, containers, name, fn) ==
    LET position == findColWithName(h, name, containers)
        r == filter(h, containers[position], fn)
    IN IF fn # "String" \/ position = 0 THEN [index |-> <<>>, err |-> TRUE, panic |-> FALSE]
       ELSE [r EXCEPT !.index = intersection(<<r.index>>)]

\* DataFrameMutator.Filter; filters is the empty map <<>> or the map <<[name, fn]>>
MutatorFilter(h, d, filters) ==
    IF Len(filters) = 0 THEN h
    ELSE LET mergedLabelsAndCols == h.dfs[d].labels \o h.dfs[d].values
             r == filterContainers(h, mergedLabelsAndCols, filters[1].name, filters[1].fn)
         IN IF r.panic THEN Panic(h)
            ELSE IF r.err THEN resetWithError(h, d, "Filter")
            ELSE MutatorSubset(h, d, r.index)

\* DataFrame.Filter: the copy it makes is dropped, the receiver is changed and returned
Filter(h, d, filters) == [h |-> MutatorFilter(h, d, filters), id |-> d]

\* subsetContainers: the containers at the positions of index
subsetContainers(containers, index) == subsetCols(containers, index)

\* DataFrameMutator.SubsetLabels
MutatorSubsetLabels(h, d, index) ==
    LET r == subsetContainers(h.dfs[d].labels, index)
    IN IF r.panic THEN Panic(h)
       ELSE IF r.err THEN resetWithError(h, d, "SubsetLabels")
       ELSE [h EXCEPT !.dfs[d].labels = r.cols]

\* DataFrameMutator.SubsetCols
MutatorSubsetCols(h, d, index) ==
    LET r == subsetContainers(h.dfs[d].values, index)
    IN IF r.panic THEN Panic(h)
       ELSE IF r.err THEN resetWithError(h, d, "SubsetCols")
       ELSE [h EXCEPT !.dfs[d].values = r.cols]

\* xs over the containers, for the map {name: value}: the rows whose stringified value
\* in the container `name` is the stringified `value`; returns [index, err]
xs(h, containers, name, value) ==
    LET position == findColWithName(h, name, containers)
        slice == str(h, containers[position])
    IN IF position = 0 THEN [index |-> <<>>, err |-> TRUE]
       ELSE [index |-> intersection(<<Ints({i - 1 : i \in {o \in 1..Len(slice) : slice[o] = value}})>>),
             err |-> FALSE]

\* DataFrameMutator.XS
MutatorXS(h, d, name, value) ==
    LET mergedLabelsAndColumns == h.dfs[d].labels \o h.dfs[d].values
        r == xs(h, mergedLabelsAndColumns, name, value)
    IN IF r.err THEN resetWithError(h, d, "XS")
       ELSE MutatorSubset(h, d, r.index)

RECURSIVE SetNames(_, _, _, _)
\* cols[k].name = names[k], for k from the given one on
SetNames(h, cols, names, k) ==
    IF k > Len(names) THEN h
    ELSE SetNames([h EXCEPT !.vcs[cols[k]].name = names[k]], cols, names, k + 1)

\* DataFrame.SetName
SetName(h, d, name) == [h |-> [h EXCEPT !.dfs[d].name = name], id |-> d]

\* DataFrame.SetLabelNames: a new DataFrame with the error, or the receiver renamed
SetLabelNames(h, d, levelNames) ==
    IF Len(levelNames) # Len(h.dfs[d].labels) THEN NewDF(h, dataFrameWithError("SetLabelNames"))
    ELSE [h |-> SetNames(h, h.dfs[d].labels, levelNames, 1), id |-> d]

\* DataFrame.SetColNames: a new DataFrame with the error, or the receiver renamed
SetColNames(h, d, colNames) ==
    IF Len(colNames) # Len(h.dfs[d].values) THEN NewDF(h, dataFrameWithError("SetColNames"))
    ELSE [h |-> SetNames(h, h.dfs[d].values, colNames, 1), id |-> d]

\* DataFrameMutator.DeduplicateNames on the object graph
MutatorDeduplicateNames(h, d) ==
    LET mergedLabelsAndCols == h.dfs[d].labels \o h.dfs[d].values
        names == [k \in DOMAIN mergedLabelsAndCols |-> h.vcs[mergedLabelsAndCols[k]].name]
    IN SetNames(h, mergedLabelsAndCols, deduplicateContainerNames(names), 1)

\* DataFrame.Lookup on the object graph: the looked-up table, or a panic (when no
\* container name is shared, concatenateLabelsToStrings reads labelStrings[0] of no keys)
Lookup(h, d, o) == LookupAdvanced(TableOf(h, d), TableOf(h, o), "left", <<>>, <<>>)

\* DataFrameMutator.Merge: the looked-up columns are new containers of the types of the
\* columns of `other`
MutatorMerge(h, d, o) ==
    LET lookupDF == Lookup(h, d, o)
        typed == [k \in DOMAIN lookupDF.values |->
                    [kind |-> h.vcs[h.dfs[o].values[k]].kind, name |-> lookupDF.values[k].name,
                     slice |-> lookupDF.values[k].slice, isNull |-> lookupDF.values[k].isNull]]
        v == NewVCs(h, typed, 1, <<>>)
    IN IF "panic" \in DOMAIN lookupDF /\ lookupDF.panic THEN Panic(h)
       ELSE MutatorDeduplicateNames([v.h EXCEPT !.dfs[d].values = @ \o v.ids], d)

\* DataFrame.Merge: the copy it makes is dropped, the receiver is changed and returned
Merge(h, d, o) == [h |-> MutatorMerge(h, d, o), id |-> d]

\* DataFrameMutator.Relabel
MutatorRelabel(h, d) ==
    IF ~HasLen(h, d) THEN Panic(h)
    ELSE LET dl == makeDefaultLabels(h, 0, DFLen(h, d), TRUE)
         IN [dl.h EXCEPT !.dfs[d].labels = <<dl.id>>]

\* DataFrameMutator.SwapLabels
MutatorSwapLabels(h, d, i, j) ==
    LET labels == h.dfs[d].labels
        containers == [k \in DOMAIN labels |-> h.vcs[labels[k]]]
        index1 == indexOfContainer(i, containers)
        index2 == indexOfContainer(j, containers)
    IN IF index1 = -1 THEN resetWithError(h, d, "SwapLabels")
       ELSE IF index2 = -1 THEN resetWithError(h, d, "SwapLabels")
       ELSE [h EXCEPT !.dfs[d].labels = [labels EXCEPT ![index1 + 1] = labels[index2 + 1],
                                                       ![index2 + 1] = labels[index1 + 1]]]

\* DataFrameMutator.ApplyFormat with one entry name -> lambda; lambdaOK: a function is
\* selected.  The result of valueContainer.applyFormat is dropped, the null mask is
\* rebuilt as in Apply; after the error of an unknown name the method goes on with
\* position 0
MutatorApplyFormat(h, d, name, lambdaOK) ==
    LET mergedLabelsAndCols == h.dfs[d].labels \o h.dfs[d].values
        index == indexOfContainer(name, [k \in DOMAIN mergedLabelsAndCols |->
                                                h.vcs[mergedLabelsAndCols[k]]])
        h1 == IF index = -1 THEN resetWithError(h, d, "ApplyFormat") ELSE h
        c == mergedLabelsAndCols[IF index = -1 THEN 1 ELSE index + 1]
        vc == h.vcs[c]
        flags == ReadBool(h, vc.isNull)
        nulls == setNullsFromInterface(vc.kind, ReadStr(h, vc.slice))
    IN IF ~lambdaOK THEN resetWithError(h, d, "ApplyFormat")
       ELSE IF Len(mergedLabelsAndCols) = 0 THEN Panic(h1)
       ELSE IF \E i \in DOMAIN flags : ~flags[i] /\ i > Len(nulls) THEN Panic(h1)
       ELSE [h1 EXCEPT !.bools = Append(@, isEitherNull(flags, nulls)),
                       !.vcs[c].isNull = MkSlice(Len(h.bools) + 1, 0, Len(flags))]

\* DataFrame.ApplyFormat: the copy it makes is dropped, the receiver is changed and returned
ApplyFormat(h, d, name, lambdaOK) == [h |-> MutatorApplyFormat(h, d, name, lambdaOK), id |-> d]

\* valueContainer.fillnull with FillForward or FillZero: every null row takes the most
\* recent non-null value before it (the zero value when there is none) or the zero value,
\* and is no longer null; the cells are written where they are
fillnull(h, c, filler) ==
    LET vc == h.vcs[c]
        vals == ReadStr(h, vc.slice)
        nulls == ReadBool(h, vc.isNull)
        n == vc.slice.len
        zeroVal == ZeroOf(vc.kind)
        LastValid(i) == LET before == {p \in 1..(i - 1) : ~nulls[p]}
                        IN IF before = {} THEN zeroVal
                           ELSE vals[CHOOSE p \in before : \A q \in before : q <= p]
        Filled(i) == IF ~nulls[i] THEN vals[i]
                     ELSE IF filler = "FillForward" THEN LastValid(i) ELSE zeroVal
    IN IF vc.isNull.len < n THEN Panic(h)
       ELSE [h EXCEPT
               !.strs[vc.slice.arr] =
                   [p \in 1..Len(@) |-> IF p > vc.slice.off /\ p <= vc.slice.off + n
                                        THEN Filled(p - vc.slice.off) ELSE @[p]],
               !.bools[vc.isNull.arr] =
                   [p \in 1..Len(@) |-> IF p > vc.isNull.off /\ p <= vc.isNull.off + n
                                        THEN FALSE ELSE @[p]]]

\* DataFrameMutator.FillNull with one entry name -> filler
MutatorFillNull(h, d, name, filler) ==
    LET mergedLabelsAndCols == h.dfs[d].labels \o h.dfs[d].values
        index == indexOfContainer(name, [k \in DOMAIN mergedLabelsAndCols |->
                                                h.vcs[mergedLabelsAndCols[k]]])
    IN IF index = -1 THEN resetWithError(h, d, "FillNull")
       ELSE fillnull(h, mergedLabelsAndCols[index + 1], filler)

\* valueContainer.cast to String: a container that holds no []string takes the string
\* projection of its values
cast(h, c) ==
    IF h.vcs[c].kind = "string" THEN h
    ELSE [h EXCEPT !.strs = Append(@, str(h, c)),
                   !.vcs[c] = [@ EXCEPT !.kind = "string",
                                        !.slice = MkSlice(Len(h.strs) + 1, 0, @.len)]]

\* DataFrame.Cast with one entry name -> String: an unknown name is reported as the
\* error the method returns, and the DataFrame stays as it is
Cast(h, d, name) ==
    LET mergedLabelsAndCols == h.dfs[d].labels \o h.dfs[d].values
        index == indexOfContainer(name, [k \in DOMAIN mergedLabelsAndCols |->
                                                h.vcs[mergedLabelsAndCols[k]]])
    IN [h |-> IF index = -1 THEN h ELSE cast(h, mergedLabelsAndCols[index + 1]), id |-> d]

\* ---- the calls

FilterArgs == {<<>>, <<[name |-> "0", fn |-> "String"]>>, <<[name |-> "x", fn |-> "String"]>>,
               <<[name |-> "0", fn |-> "none"]>>}
ContainerIndexLists == {<<0>>, <<1>>, <<-1>>}
RenameLists == {<<"x">>, <<"x", "0">>}
SwapArgs == {<<"*0", "x">>, <<"x", "*0">>, <<"*0", "*0">>}
NullFillers == {"FillForward", "FillZero"}

\* DataFrame.Col: the *Series of the first column called `name` of DataFrame e, which
\* holds the column's own container, or the *Series that carries an error and has no
\* container (values = 0) when no column has the name; `from` keeps the DataFrame it was
\* taken from
Col(h, e, name) ==
    LET index == indexOfContainer(name, TableOf(h, e).values)
    IN IF index = -1 THEN [kind |-> "series", values |-> 0, from |-> e]
       ELSE [kind |-> "series", values |-> h.dfs[e].values[index + 1], from |-> e]

\* the *Series a caller can hand to WithCol or WithLabels: df.Col("0") of any DataFrame
SeriesInputs == {Col(Cur, e, "0") : e \in DOMAIN dfs}

\* the copies that stop being independent of their original when the caller hands the
\* Series of the one to a call on the other
Linked(d, input) ==
    IF input.kind = "series" THEN {pair \in copies : {pair[1], pair[2]} = {d, input.from}}
    ELSE {}

\* df.WithCol(name, series)
DoWithColSeries ==
    \E d \in DOMAIN dfs, name \in ColNameArgs, input \in SeriesInputs, inplace \in BOOLEAN :
        /\ Call("WithCol", inplace, d, [name |-> name, input |-> input],
                WithCol(Cur, d, name, input))
        /\ copies' = copies \ Linked(d, input)
        /\ UNCHANGED gvars

\* df.WithLabels(name, series)
DoWithLabelsSeries ==
    \E d \in DOMAIN dfs, name \in LabelNameArgs, input \in SeriesInputs, inplace \in BOOLEAN :
        /\ Call("WithLabels", inplace, d, [name |-> name, input |-> input],
                WithLabels(Cur, d, name, input))
        /\ copies' = copies \ Linked(d, input)
        /\ UNCHANGED gvars

DoFilter ==
    \E d \in DOMAIN dfs, filters \in FilterArgs, inplace \in BOOLEAN :
        /\ Call("Filter", inplace, d, [filters |-> filters], Filter(Cur, d, filters))
        /\ UNCHANGED <<copies, gvars>>

\* df = df.Copy(); df.InPlace().SubsetLabels(...); return df
SubsetLabels(h, d, index) ==
    LET c == Copy(h, d)
    IN [h |-> MutatorSubsetLabels(c.h, c.id, index), id |-> c.id]

DoSubsetLabels ==
    \E d \in DOMAIN dfs, index \in ContainerIndexLists, inplace \in BOOLEAN :
        /\ inplace \/ Room
        /\ Call("SubsetLabels", inplace, d, [index |-> index],
                IF inplace THEN [h |-> MutatorSubsetLabels(Cur, d, index), id |-> d]
                ELSE SubsetLabels(Cur, d, index))
        /\ UNCHANGED <<copies, gvars>>

\* df = df.Copy(); df.InPlace().SubsetCols(...); return df
SubsetCols(h, d, index) ==
    LET c == Copy(h, d)
    IN [h |-> MutatorSubsetCols(c.h, c.id, index), id |-> c.id]

DoSubsetCols ==
    \E d \in DOMAIN dfs, index \in ContainerIndexLists, inplace \in BOOLEAN :
        /\ inplace \/ Room
        /\ Call("SubsetCols", inplace, d, [index |-> index],
                IF inplace THEN [h |-> MutatorSubsetCols(Cur, d, index), id |-> d]
                ELSE SubsetCols(Cur, d, index))
        /\ UNCHANGED <<copies, gvars>>

\* df = df.Copy(); df.InPlace().XS(...); return df
XS(h, d, name, value) ==
    LET c == Copy(h, d)
    IN [h |-> MutatorXS(c.h, c.id, name, value), id |-> c.id]

DoXS ==
    \E d \in DOMAIN dfs, name \in ColNameArgs, inplace \in BOOLEAN :
        /\ inplace \/ Room
        /\ Call("XS", inplace, d, [name |-> name, value |-> "a"],
                IF inplace THEN [h |-> MutatorXS(Cur, d, name, "a"), id |-> d]
                ELSE XS(Cur, d, name, "a"))
        /\ UNCHANGED <<copies, gvars>>

DoSetName ==
    \E d \in DOMAIN dfs :
        /\ Call("SetName", TRUE, d, [name |-> "t"], SetName(Cur, d, "t"))
        /\ UNCHANGED <<copies, gvars>>

DoSetLabelNames ==
    \E d \in DOMAIN dfs, levelNames \in RenameLists :
        /\ Len(levelNames) = Len(dfs[d].labels) \/ Room
        /\ Call("SetLabelNames", TRUE, d, [levelNames |-> levelNames],
                SetLabelNames(Cur, d, levelNames))
        /\ UNCHANGED <<copies, gvars>>

DoSetColNames ==
    \E d \in DOMAIN dfs, colNames \in RenameLists :
        /\ Len(colNames) = Len(dfs[d].values) \/ Room
        /\ Call("SetColNames", TRUE, d, [colNames |-> colNames], SetColNames(Cur, d, colNames))
        /\ UNCHANGED <<copies, gvars>>

\* df.Merge(other)
DoMerge ==
    \E d \in DOMAIN dfs, o \in DOMAIN dfs, inplace \in BOOLEAN :
        /\ Call("Merge", inplace, d, [other |-> o], Merge(Cur, d, o))
        /\ UNCHANGED <<copies, gvars>>

\* df = df.Copy(); df.InPlace().Relabel(...); return df
Relabel(h, d) ==
    LET c == Copy(h, d)
    IN [h |-> MutatorRelabel(c.h, c.id), id |-> c.id]

DoRelabel ==
    \E d \in DOMAIN dfs, inplace \in BOOLEAN :
        /\ inplace \/ Room
        /\ Call("Relabel", inplace, d, <<>>,
                IF inplace THEN [h |-> MutatorRelabel(Cur, d), id |-> d]
                ELSE Relabel(Cur, d))
        /\ UNCHANGED <<copies, gvars>>

\* df = df.Copy(); df.InPlace().SwapLabels(...); return df
SwapLabels(h, d, i, j) ==
    LET c == Copy(h, d)
    IN [h |-> MutatorSwapLabels(c.h, c.id, i, j), id |-> c.id]

DoSwapLabels ==
    \E d \in DOMAIN dfs, a \in SwapArgs, inplace \in BOOLEAN :
        /\ inplace \/ Room
        /\ Call("SwapLabels", inplace, d, [i |-> a[1], j |-> a[2]],
                IF inplace THEN [h |-> MutatorSwapLabels(Cur, d, a[1], a[2]), id |-> d]
                ELSE SwapLabels(Cur, d, a[1], a[2]))
        /\ UNCHANGED <<copies, gvars>>

DoApplyFormat ==
    \E d \in DOMAIN dfs, name \in ColNameArgs \cup LabelNameArgs, lambdaOK \in BOOLEAN,
       inplace \in BOOLEAN :
        /\ Call("ApplyFormat", inplace, d, [name |-> name, lambdaOK |-> lambdaOK],
                ApplyFormat(Cur, d, name, lambdaOK))
        /\ UNCHANGED <<copies, gvars>>

\* df = df.Copy(); df.InPlace().FillNull(...); return df
FillNull(h, d, name, filler) ==
    LET c == Copy(h, d)
    IN [h |-> MutatorFillNull(c.h, c.id, name, filler), id |-> c.id]

DoFillNull ==
    \E d \in DOMAIN dfs, name \in ColNameArgs, filler \in NullFillers, inplace \in BOOLEAN :
        /\ inplace \/ Room
        /\ Call("FillNull", inplace, d, [name |-> name, filler |-> filler],
                IF inplace THEN [h |-> MutatorFillNull(Cur, d, name, filler), id |-> d]
                ELSE FillNull(Cur, d, name, filler))
        /\ UNCHANGED <<copies, gvars>>

DoCast ==
    \E d \in DOMAIN dfs, name \in ColNameArgs \cup LabelNameArgs :
        /\ Call("Cast", TRUE, d, [name |-> name, dtype |-> "String"], Cast(Cur, d, name))
        /\ UNCHANGED <<copies, gvars>>

Next ==
    \/ DoNewDataFrame
    \/ DoCopy
    \/ DoSubset
    \/ DoMutatorSubset
    \/ DoDropRow
    \/ DoHead
    \/ DoTail
    \/ DoRange
    \/ DoWithCol
    \/ DoWithLabels
    \/ DoDropCol
    \/ DoDropLabels
    \/ DoAppend
    \/ DoSetLabels
    \/ DoResetLabels
    \/ DoApply
    \/ DoSort
    \/ DoPromoteToColLevel
    \/ DoWithColSeries
    \/ DoWithLabelsSeries
    \/ DoFilter
    \/ DoSubsetLabels
    \/ DoSubsetCols
    \/ DoXS
    \/ DoSetName
    \/ DoSetLabelNames
    \/ DoSetColNames
    \/ DoMerge
    \/ DoRelabel
    \/ DoSwapLabels
    \/ DoApplyFormat
    \/ DoFillNull
    \/ DoCast

Spec == Init /\ [][Next]_vars

====
